---- MODULE Spec2Model ----
(***************************************************************************)
(* Hunty contracts: HuntyCore (hunt lifecycle, clues, player progress,     *)
(* claim), RewardManager (reward pools, distribution) and NftReward (NFT   *)
(* registry), modelled as one state machine over the three contracts'      *)
(* persistent storage and the token ledger they transfer on.               *)
(*                                                                         *)
(* One action per contract entry point.  An invocation that panics (a      *)
(* failed require_auth, a failed token transfer, a failed cross-contract   *)
(* call) or that returns an error is discarded by the host: none of its    *)
(* writes are kept.  The variable last records the most recent invocation  *)
(* and its outcome.                                                        *)
(***************************************************************************)
EXTENDS Integers, Sequences, FiniteSets, TLC

\* ---------------------------------------------------------------- bounds
MaxHunts == 2
MaxAmount == 2
InitialTokens == 2
MaxNfts == 1
MaxClues == 2
MaxPool == 2
MaxWinners == 2
MaxTime == 2
MaxBoard == 3
MaxScore == 2
MaxAnswerLen == 3
MaxMints == 2

\* ------------------------------------------------------------- universes
Players == {"p1", "p2"}
Creator == "c1"
Funders == {Creator}
Addrs == Players \cup {Creator}
HuntIds == 1..MaxHunts
RM == "reward_manager"
XlmToken == "xlm_token"
NftRewardAddr == "nft_reward"
NoContractAddr == "no_contract"
NftContracts == {NftRewardAddr, NoContractAddr}
Accounts == Addrs \cup {RM}
Pairs == HuntIds \X Players

\* A text (soroban String) whose content no contract inspects is represented
\* by its length, the only property the contracts read.

\* Option<T>: None is the empty sequence, Some(x) the one-element sequence
None == << >>
Some(x) == << x >>
IsSome(o) == Len(o) = 1
Unwrap(o) == o[1]

AmountInputs == 0..MaxAmount

Configs ==
    [ xlm_amount : {None} \cup { Some(a) : a \in AmountInputs },
      nft_contract : {None} \cup { Some(c) : c \in NftContracts },
      nft_title : {4},
      nft_description : {4},
      nft_image_uri : {4},
      nft_hunt_title : {4},
      nft_rarity : {0},
      nft_tier : {0} ]

NoConfig ==
    [ xlm_amount |-> None, nft_contract |-> None, nft_title |-> 0,
      nft_description |-> 0, nft_image_uri |-> 0, nft_hunt_title |-> 0,
      nft_rarity |-> 0, nft_tier |-> 0 ]

VARIABLES
    now,            \* env.ledger().timestamp()
    hunt_counter,   \* HuntyCore: hunt id counter
    hunts,          \* HuntyCore: Hunt per hunt id
    clue_counter,   \* HuntyCore: clue id counter per hunt
    clues,          \* HuntyCore: Clue per (hunt id, clue id)
    progress,       \* HuntyCore: PlayerProgress per (hunt id, player)
    hunt_players,   \* HuntyCore: registered players per hunt, in order
    reward_manager, \* HuntyCore: RewardManager address
    xlm_token,      \* RewardManager: XLMTKN
    nft_contract,   \* RewardManager: NFTADR (default NftReward contract)
    pool,           \* RewardManager: POOL, per hunt
    distributed,    \* RewardManager: DIST, per (hunt, player)
    dist_record,    \* RewardManager: DREC, per (hunt, player)
    token_bal,      \* token ledger: balance per account
    nft_counter,    \* NftReward: CNTR
    nfts,           \* NftReward: NFT, per nft id
    owner_nfts,     \* NftReward: ONFT, per owner
    last            \* the most recent invocation and its outcome

rm_vars == << xlm_token, nft_contract, pool, distributed, dist_record >>
nft_vars == << nft_counter, nfts, owner_nfts >>
core_vars == << hunt_counter, hunts, clue_counter, clues, progress,
               hunt_players, reward_manager >>
vars == << now, hunt_counter, hunts, clue_counter, clues, progress,
           hunt_players, reward_manager, xlm_token, nft_contract, pool, distributed, dist_record,
           token_bal, nft_counter, nfts, owner_nfts, last >>

\* A RewardManager invocation and its outcome.
Call(op, invoker, hunt, player, amount, cfg, result) ==
    [ op |-> op, invoker |-> invoker, hunt |-> hunt, player |-> player,
      amount |-> amount, cfg |-> cfg, arg |-> << >>, result |-> result ]

\* A HuntyCore invocation and its outcome; arg holds the remaining arguments.
CoreCall(op, invoker, hunt, player, arg, result) ==
    [ op |-> op, invoker |-> invoker, hunt |-> hunt, player |-> player,
      amount |-> 0, cfg |-> NoConfig, arg |-> arg, result |-> result ]

\* ============================================================ token ledger
\* token::Client::transfer: panics unless the ledger accepts the transfer and
\* the source holds the amount.  accepted is the ledger's own decision
\* (trustline, authorization), an input of the invocation.
transfer_ok(bal, from, amount, accepted) ==
    accepted /\ amount >= 0 /\ bal[from] >= amount

transfer(bal, from, to, amount) ==
    IF from = to THEN bal
    ELSE [bal EXCEPT ![from] = @ - amount, ![to] = @ + amount]

\* ================================================================ NftReward
NftMetadata(title, description, image_uri, hunt_title, rarity, tier) ==
    [ title |-> title, description |-> description, image_uri |-> image_uri,
      hunt_title |-> hunt_title, rarity |-> rarity, tier |-> tier ]

\* Storage::save_nft
save_nft(n, nft) ==
    [ i \in (DOMAIN n) \cup {nft.nft_id} |->
        IF i = nft.nft_id THEN nft ELSE n[i] ]

\* Storage::add_nft_to_owner
add_nft_to_owner(o, owner, nft_id) ==
    [o EXCEPT ![owner] = Append(@, nft_id)]

\* The NftReward part of the state as a value, so that nested calls can
\* compute on it.
NftState == [ nft_counter |-> nft_counter, nfts |-> nfts,
              owner_nfts |-> owner_nfts ]

\* Storage::next_nft_id: the counter after the increment, which is the id
\* (next_nft_id_stuck: the counter is not incremented.)
next_nft_id_stuck(current) == current
next_nft_id(current) == current + 1

\* NftReward::mint_reward_nft on the registry state s; returns the new state
\* and the id.
mint_reward_nft(s, hunt_id, player_address, metadata, minted_at) ==
    LET nft_id == next_nft_id(s.nft_counter)
        nft_data == [ nft_id |-> nft_id, hunt_id |-> hunt_id,
                      owner |-> player_address,
                      completion_player |-> player_address,
                      metadata |-> metadata, minted_at |-> minted_at ]
    IN  [ nft_id |-> nft_id,
          st |-> [ nft_counter |-> nft_id,
                   nfts |-> save_nft(s.nfts, nft_data),
                   owner_nfts |-> add_nft_to_owner(s.owner_nfts,
                                                   player_address, nft_id) ] ]

\* NftReward::mint_reward_nft_from_map: every key is present in the map the
\* RewardManager builds, so each field is taken from the map.
mint_reward_nft_from_map(s, hunt_id, player_address, metadata, minted_at) ==
    mint_reward_nft(s, hunt_id, player_address,
        NftMetadata(metadata.title, metadata.description, metadata.image_uri,
                    metadata.hunt_title, metadata.rarity, metadata.tier),
        minted_at)

\* ============================================================ RewardManager
\* RewardConfig::has_xlm
has_xlm(cfg) == IsSome(cfg.xlm_amount) /\ Unwrap(cfg.xlm_amount) > 0

\* RewardConfig::has_nft
has_nft(cfg) == IsSome(cfg.nft_contract)

\* RewardConfig::is_valid
is_valid(cfg) == has_xlm(cfg) \/ has_nft(cfg)

\* Storage::is_distributed
is_distributed(d, hunt_id, player) == d[<< hunt_id, player >>]

\* Storage::set_distributed  (set_distributed_skip: the marker is not written)
set_distributed_skip(d, hunt_id, player) == d

set_distributed(d, hunt_id, player) ==
    [d EXCEPT ![<< hunt_id, player >>] = TRUE]

\* Storage::set_distribution_record  (set_distribution_record_lost: no write)
set_distribution_record_lost(r, hunt_id, player, record) == r

set_distribution_record(r, hunt_id, player, record) ==
    [r EXCEPT ![<< hunt_id, player >>] = Some(record)]

\* Storage::get_pool_balance
get_pool_balance(p, hunt_id) == p[hunt_id]

\* Storage::set_pool_balance  (set_pool_balance_shared: one key for all hunts)
set_pool_balance_shared(p, hunt_id, balance) == [h \in DOMAIN p |-> balance]

set_pool_balance(p, hunt_id, balance) == [p EXCEPT ![hunt_id] = balance]

\* NftHandler::distribute_nft: env.invoke_contract of mint_reward_nft_from_map
\* on the address given; the call panics when no NftReward contract lives
\* there.
nft_call_ok(contract) == contract = NftRewardAddr

\* RewardManager::distribute_rewards, line 124: the per-hunt pool covers the
\* amount.  (pool_covers_contract: the check made on the contract's whole
\* token balance, as XlmHandler::validate_pool does.)
pool_covers_contract(s, hunt_id, amount) == s.token_bal[RM] >= amount

pool_covers(s, hunt_id, amount) ==
    ~(get_pool_balance(s.pool, hunt_id) < amount)

\* The state the RewardManager reads and writes, directly or through the
\* token and NFT contracts, as a value.
RmState ==
    [ xlm_token |-> xlm_token, nft_contract |-> nft_contract, pool |-> pool,
      distributed |-> distributed, dist_record |-> dist_record,
      token_bal |-> token_bal, nft |-> NftState ]

Failed(s, err) == [ result |-> err, st |-> s ]

\* RewardManager::distribute_rewards, line 137: the pool balance written
\* after the transfer.  (pool_after_payout_kept: the pool is not debited.)
pool_after_payout_kept(pool_balance, amount) == pool_balance

pool_after_payout(pool_balance, amount) == pool_balance - amount

\* RewardManager::distribute_rewards, lines 113-138 (XLM routing): returns
\* the error or panic that ends the call, or "Ok" with the state after the
\* transfer and the debit.
route_xlm(s, hunt_id, player_address, cfg, accepted) ==
    IF ~has_xlm(cfg) THEN [ result |-> "Ok", st |-> s, xlm_amount |-> 0 ]
    ELSE
    LET amount == Unwrap(cfg.xlm_amount)
        pool_balance == get_pool_balance(s.pool, hunt_id)
    IN  IF amount <= 0 THEN
            [ result |-> "InvalidAmount", st |-> s, xlm_amount |-> 0 ]
        ELSE IF ~IsSome(s.xlm_token) THEN
            [ result |-> "NotInitialized", st |-> s, xlm_amount |-> 0 ]
        ELSE IF ~pool_covers(s, hunt_id, amount) THEN
            [ result |-> "InsufficientPool", st |-> s, xlm_amount |-> 0 ]
        ELSE IF ~transfer_ok(s.token_bal, RM, amount, accepted) THEN
            [ result |-> "Panic:transfer", st |-> s, xlm_amount |-> 0 ]
        ELSE
            [ result |-> "Ok",
              st |-> [s EXCEPT
                        !.token_bal = transfer(@, RM, player_address, amount),
                        !.pool = set_pool_balance(@, hunt_id,
                                    pool_after_payout(pool_balance, amount))],
              xlm_amount |-> amount ]

\* RewardManager::distribute_rewards, lines 140-161 (NFT routing)
\* (route_nft_swallow: a failed mint is tolerated and the distribution goes on
\* without an NFT.)
route_nft_swallow(s, hunt_id, player_address, cfg, t) ==
    IF ~has_nft(cfg) \/ ~nft_call_ok(Unwrap(cfg.nft_contract))
    THEN [ result |-> "Ok", st |-> s, nft_id |-> None ]
    ELSE
        LET m == mint_reward_nft_from_map(s.nft, hunt_id, player_address,
                    NftMetadata(cfg.nft_title, cfg.nft_description,
                                cfg.nft_image_uri, cfg.nft_hunt_title,
                                cfg.nft_rarity, cfg.nft_tier), t)
        IN  [ result |-> "Ok", st |-> [s EXCEPT !.nft = m.st],
              nft_id |-> Some(m.nft_id) ]

route_nft(s, hunt_id, player_address, cfg, t) ==
    IF ~has_nft(cfg) THEN [ result |-> "Ok", st |-> s, nft_id |-> None ]
    ELSE
    LET target == IF IsSome(cfg.nft_contract) THEN cfg.nft_contract
                  ELSE s.nft_contract
    IN  IF ~IsSome(target) THEN
            [ result |-> "InvalidConfig", st |-> s, nft_id |-> None ]
        ELSE IF ~nft_call_ok(Unwrap(target)) THEN
            [ result |-> "Panic:mint", st |-> s, nft_id |-> None ]
        ELSE
            LET m == mint_reward_nft_from_map(s.nft, hunt_id, player_address,
                        NftMetadata(cfg.nft_title, cfg.nft_description,
                                    cfg.nft_image_uri, cfg.nft_hunt_title,
                                    cfg.nft_rarity, cfg.nft_tier), t)
            IN  [ result |-> "Ok", st |-> [s EXCEPT !.nft = m.st],
                  nft_id |-> Some(m.nft_id) ]

\* RewardManager::distribute_rewards on state s: the outcome and the state the
\* host keeps (s itself when the call failed).
\* (distribute_marker_first: the distributed marker is read before the
\* configuration is validated.)
distribute_marker_first(s, hunt_id, player_address, cfg, accepted, t) ==
    IF is_distributed(s.distributed, hunt_id, player_address) THEN
        Failed(s, "AlreadyDistributed")
    ELSE IF ~is_valid(cfg) THEN Failed(s, "InvalidConfig")
    ELSE
    LET x == route_xlm(s, hunt_id, player_address, cfg, accepted)
    IN  IF x.result # "Ok" THEN Failed(s, x.result)
        ELSE
        LET n == route_nft(x.st, hunt_id, player_address, cfg, t)
        IN  IF n.result # "Ok" THEN Failed(s, n.result)
            ELSE
            [ result |-> "Ok",
              st |-> [n.st EXCEPT
                  !.distributed = set_distributed(@, hunt_id, player_address),
                  !.dist_record = set_distribution_record(@, hunt_id,
                        player_address,
                        [ xlm_amount |-> x.xlm_amount,
                          nft_id |-> n.nft_id ])] ]

distribute(s, hunt_id, player_address, cfg, accepted, t) ==
    IF ~is_valid(cfg) THEN Failed(s, "InvalidConfig")
    ELSE IF is_distributed(s.distributed, hunt_id, player_address) THEN
        Failed(s, "AlreadyDistributed")
    ELSE
    LET x == route_xlm(s, hunt_id, player_address, cfg, accepted)
    IN  IF x.result # "Ok" THEN Failed(s, x.result)
        ELSE
        LET n == route_nft(x.st, hunt_id, player_address, cfg, t)
        IN  IF n.result # "Ok" THEN Failed(s, n.result)
            ELSE
            [ result |-> "Ok",
              st |-> [n.st EXCEPT
                  !.distributed = set_distributed(@, hunt_id, player_address),
                  !.dist_record = set_distribution_record(@, hunt_id,
                        player_address,
                        [ xlm_amount |-> x.xlm_amount,
                          nft_id |-> n.nft_id ])] ]

\* Writes a RewardManager-side state value back to the variables.
SetRmState(s) ==
    /\ xlm_token' = s.xlm_token
    /\ nft_contract' = s.nft_contract
    /\ pool' = s.pool
    /\ distributed' = s.distributed
    /\ dist_record' = s.dist_record
    /\ token_bal' = s.token_bal
    /\ nft_counter' = s.nft.nft_counter
    /\ nfts' = s.nft.nfts
    /\ owner_nfts' = s.nft.owner_nfts

\* RewardManager::initialize
initialize(token) ==
    /\ xlm_token' = Some(token)
    /\ last' = Call("initialize", "any", 0, "-", 0, NoConfig, "Ok")
    /\ UNCHANGED << now, core_vars, nft_contract, pool, distributed,
                    dist_record, token_bal, nft_vars >>

\* RewardManager::set_nft_reward_contract
set_nft_reward_contract(c) ==
    /\ nft_contract' = Some(c)
    /\ last' = Call("set_nft_reward_contract", "any", 0, c, 0, NoConfig, "Ok")
    /\ UNCHANGED << now, core_vars, xlm_token, pool, distributed,
                    dist_record, token_bal, nft_vars >>

\* RewardManager::fund_reward_pool, lines 64-66: the pool is credited once
\* the transfer has gone through
\* (pool_after_fund_always: the pool is credited whatever the result.)
pool_after_fund_always(result, p, hunt_id, amount) ==
    set_pool_balance(p, hunt_id, get_pool_balance(p, hunt_id) + amount)

pool_after_fund(result, p, hunt_id, amount) ==
    IF result = "Ok"
    THEN set_pool_balance(p, hunt_id, get_pool_balance(p, hunt_id) + amount)
    ELSE p

\* RewardManager::fund_reward_pool
fund_reward_pool(invoker, funder, hunt_id, amount, accepted) ==
    LET result ==
            IF invoker # funder THEN "Panic:auth"
            ELSE IF amount <= 0 THEN "InvalidAmount"
            ELSE IF ~IsSome(xlm_token) THEN "NotInitialized"
            ELSE IF ~transfer_ok(token_bal, funder, amount, accepted)
                 THEN "Panic:transfer"
            ELSE "Ok"
    IN  /\ last' = Call("fund_reward_pool", invoker, hunt_id, funder, amount,
                        NoConfig, result)
        /\ token_bal' = IF result = "Ok"
                        THEN transfer(token_bal, funder, RM, amount)
                        ELSE token_bal
        /\ pool' = pool_after_fund(result, pool, hunt_id, amount)
        /\ UNCHANGED << now, core_vars, xlm_token, nft_contract,
                        distributed, dist_record, nft_vars >>

\* RewardManager::distribute_rewards
distribute_rewards(hunt_id, player_address, cfg, accepted) ==
    LET d == distribute(RmState, hunt_id, player_address, cfg, accepted, now)
    IN  /\ has_nft(cfg) => nft_counter < MaxNfts
        /\ SetRmState(d.st)
        /\ last' = Call("distribute_rewards", "any", hunt_id, player_address,
                        0, cfg, d.result)
        /\ UNCHANGED << now, core_vars >>

\* ================================================================ HuntyCore
MAX_QUESTION_LENGTH == 2000
MAX_ANSWER_LENGTH == 256
MAX_CLUES_PER_HUNT == 100
MAX_TITLE_LENGTH == 200
MAX_DESCRIPTION_LENGTH == 2000
MAX_LEADERBOARD_SIZE == 20

\* types::RewardConfig::new
NewRewardConfig(xlm_pool, nft_enabled, nft_c, max_winners) ==
    [ xlm_pool |-> xlm_pool, nft_enabled |-> nft_enabled,
      nft_contract |-> nft_c, max_winners |-> max_winners,
      claimed_count |-> 0 ]

\* types::Hunt::is_active: Active and within the end time (0 = no end time)
is_active_no_deadline(hunt, current_time) == hunt.status = "Active"

is_active(hunt, current_time) ==
    /\ hunt.status = "Active"
    /\ (hunt.end_time = 0 \/ current_time < hunt.end_time)

\* types::Hunt::has_rewards_available: a winner slot remains
has_rewards_available(hunt) ==
    hunt.reward_config.claimed_count < hunt.reward_config.max_winners

\* types::RewardConfig::reward_per_winner: pool / max_winners, truncated
reward_per_winner(rc) ==
    IF rc.max_winners > 0 THEN rc.xlm_pool \div rc.max_winners ELSE 0

\* types::PlayerProgress::new
NewPlayerProgress(player, hunt_id, current_time) ==
    [ player |-> player, hunt_id |-> hunt_id, completed_clues |-> << >>,
      total_score |-> 0, is_completed |-> FALSE, completed_at |-> 0,
      reward_claimed |-> FALSE, registered_at |-> current_time ]

\* types::PlayerProgress::has_completed_clue
has_completed_clue(pg, clue_id) ==
    \E i \in 1..Len(pg.completed_clues) : pg.completed_clues[i] = clue_id

\* types::PlayerProgress::complete_clue  (complete_clue_one_point: every clue
\* counts one point)
complete_clue_one_point(pg, clue_id, points) ==
    [pg EXCEPT !.completed_clues = Append(@, clue_id),
               !.total_score = @ + 1]

complete_clue(pg, clue_id, points) ==
    [pg EXCEPT !.completed_clues = Append(@, clue_id),
               !.total_score = @ + points]

\* HuntyCore::is_ascii_space
is_ascii_space(b) == b = 32 \/ b = 9 \/ b = 10 \/ b = 13

\* HuntyCore::normalize_and_hash_answer, the two trimming loops; start and
\* end are the code's 0-based indexes into buf.
RECURSIVE skip_leading(_, _, _)
skip_leading(buf, start, end) ==
    IF start < end /\ is_ascii_space(buf[start + 1])
    THEN skip_leading(buf, start + 1, end) ELSE start

RECURSIVE skip_trailing(_, _, _)
skip_trailing(buf, start, end) ==
    IF end > start /\ is_ascii_space(buf[end])
    THEN skip_trailing(buf, start, end - 1) ELSE end

\* HuntyCore::normalize_and_hash_answer, the lowercasing of one byte
\* (to_lower_keep: the byte is left as it is.)
to_lower_keep(b) == b
to_lower(b) == IF b >= 65 /\ b <= 90 THEN b + (97 - 65) ELSE b

\* env.crypto().sha256: collision-free, so a digest is identified with the
\* bytes it was computed from.
sha256(bytes) == [ sha256_of |-> bytes ]

\* HuntyCore::normalize_and_hash_answer: None stands for Err(InvalidAnswer).
normalize_and_hash_answer(answer) ==
    LET n == Len(answer)
    IN  IF n = 0 \/ n > MAX_ANSWER_LENGTH THEN None
        ELSE
        LET start == skip_leading(answer, 0, n)
            end == skip_trailing(answer, start, n)
        IN  IF start >= end THEN None
            ELSE Some(sha256([ i \in 1..(end - start) |->
                                 to_lower(answer[start + i]) ]))

\* Storage::get_hunt
get_hunt(hunt_id) == hunts[hunt_id]

\* Storage::list_clues_for_hunt: the hunt's clues in id order
list_clues_for_hunt(hunt_id) == clues[hunt_id]

\* HuntyCore::check_all_required_clues_completed
\* (check_all_required_clues_completed_some_required: a hunt without a
\* required clue is never completed.)
check_all_required_clues_completed_some_required(hunt_id, pg) ==
    LET all_clues == list_clues_for_hunt(hunt_id)
    IN  /\ \E i \in 1..Len(all_clues) : all_clues[i].is_required
        /\ \A i \in 1..Len(all_clues) :
               all_clues[i].is_required =>
                   has_completed_clue(pg, all_clues[i].clue_id)

check_all_required_clues_completed(hunt_id, pg) ==
    LET all_clues == list_clues_for_hunt(hunt_id)
    IN  \A i \in 1..Len(all_clues) :
            all_clues[i].is_required =>
                has_completed_clue(pg, all_clues[i].clue_id)

CoreUnchangedExcept(changed) ==
    /\ "hunt_counter" \in changed \/ UNCHANGED hunt_counter
    /\ "hunts" \in changed \/ UNCHANGED hunts
    /\ "clue_counter" \in changed \/ UNCHANGED clue_counter
    /\ "clues" \in changed \/ UNCHANGED clues
    /\ "progress" \in changed \/ UNCHANGED progress
    /\ "hunt_players" \in changed \/ UNCHANGED hunt_players
    /\ "reward_manager" \in changed \/ UNCHANGED reward_manager

RmSideUnchanged ==
    UNCHANGED << xlm_token, nft_contract, pool, distributed, dist_record,
                 token_bal, nft_vars >>

\* HuntyCore::create_hunt
create_hunt(creator, title, description, end_time) ==
    LET result ==
            IF title = 0 THEN "InvalidTitle"
            ELSE IF title > MAX_TITLE_LENGTH THEN "InvalidTitle"
            ELSE IF description > MAX_DESCRIPTION_LENGTH
                 THEN "InvalidDescription"
            ELSE "Ok"
        hunt_id == hunt_counter + 1           \* Storage::next_hunt_id
        hunt == [ hunt_id |-> hunt_id, creator |-> creator,
                  title |-> title, description |-> description,
                  status |-> "Draft", created_at |-> now,
                  activated_at |-> 0,
                  end_time |-> IF IsSome(end_time) THEN Unwrap(end_time)
                               ELSE 0,
                  reward_config |-> NewRewardConfig(0, FALSE, None, 0),
                  total_clues |-> 0, required_clues |-> 0 ]
    IN  /\ hunt_counter < MaxHunts
        /\ last' = CoreCall("create_hunt", "any",
                            IF result = "Ok" THEN hunt_id ELSE 0, creator,
                            << title, description, end_time >>, result)
        /\ IF result = "Ok"
           THEN /\ hunt_counter' = hunt_id
                /\ hunts' = [hunts EXCEPT ![hunt_id] = Some(hunt)]
           ELSE UNCHANGED << hunt_counter, hunts >>
        /\ CoreUnchangedExcept({"hunt_counter", "hunts"})
        /\ RmSideUnchanged
        /\ UNCHANGED now

\* HuntyCore::add_clue, lines 144-162: the checks, in order
\* (add_clue_check_any_status: the hunt's status is not checked.)
add_clue_check_any_status(h, invoker, counter, question, answer_hash) ==
    IF ~IsSome(h) THEN "HuntNotFound"
    ELSE IF invoker # Unwrap(h).creator THEN "Panic:auth"
    ELSE IF counter >= MAX_CLUES_PER_HUNT THEN "TooManyClues"
    ELSE IF question = 0 \/ question > MAX_QUESTION_LENGTH
         THEN "InvalidQuestion"
    ELSE IF ~IsSome(answer_hash) THEN "InvalidAnswer"
    ELSE "Ok"
add_clue_check(h, invoker, counter, question, answer_hash) ==
    IF ~IsSome(h) THEN "HuntNotFound"
    ELSE IF Unwrap(h).status # "Draft" THEN "InvalidHuntStatus"
    ELSE IF invoker # Unwrap(h).creator THEN "Panic:auth"
    ELSE IF counter >= MAX_CLUES_PER_HUNT THEN "TooManyClues"
    ELSE IF question = 0 \/ question > MAX_QUESTION_LENGTH
         THEN "InvalidQuestion"
    ELSE IF ~IsSome(answer_hash) THEN "InvalidAnswer"
    ELSE "Ok"

\* HuntyCore::add_clue, lines 168-170: the hunt saved with one more clue
with_clue_added_uncounted(hunt) == hunt
with_clue_added(hunt) == [hunt EXCEPT !.total_clues = @ + 1]

\* A hunt takes clues up to MaxClues; a hunt that starts out beyond MaxClues
\* is bounded by MAX_CLUES_PER_HUNT alone.
add_clue(invoker, hunt_id, question, answer, points, is_required) ==
    LET h == get_hunt(hunt_id)
        answer_hash == normalize_and_hash_answer(answer)
        result == add_clue_check(h, invoker, clue_counter[hunt_id],
                                 question, answer_hash)
        clue_id == clue_counter[hunt_id] + 1  \* Storage::next_clue_id
        clue == [ clue_id |-> clue_id, question |-> question,
                  answer_hash |-> Unwrap(answer_hash), points |-> points,
                  is_required |-> is_required ]
    IN  /\ result = "Ok" => clue_counter[hunt_id] # MaxClues
        /\ last' = CoreCall("add_clue", invoker, hunt_id, "-",
                            << question, answer, points, is_required >>,
                            result)
        /\ IF result = "Ok"
           THEN /\ clue_counter' = [clue_counter EXCEPT ![hunt_id] = clue_id]
                /\ clues' = [clues EXCEPT ![hunt_id] = Append(@, clue)]
                /\ hunts' = [hunts EXCEPT ![hunt_id] =
                       Some(with_clue_added(Unwrap(h)))]
           ELSE UNCHANGED << clue_counter, clues, hunts >>
        /\ CoreUnchangedExcept({"clue_counter", "clues", "hunts"})
        /\ RmSideUnchanged
        /\ UNCHANGED now

\* HuntyCore::activate_hunt, lines 257-267: the checks, in order
\* (activate_check_no_clue_check: the clue count is not checked.)
activate_check_no_clue_check(hunt, caller) ==
    IF caller # hunt.creator THEN "Unauthorized"
    ELSE IF hunt.status # "Draft" THEN "InvalidHuntStatus"
    ELSE "Ok"

activate_check(hunt, caller) ==
    IF caller # hunt.creator THEN "Unauthorized"
    ELSE IF hunt.status # "Draft" THEN "InvalidHuntStatus"
    ELSE IF hunt.total_clues = 0 THEN "NoCluesAdded"
    ELSE "Ok"

\* HuntyCore::activate_hunt
activate_hunt(invoker, hunt_id, caller) ==
    LET h == get_hunt(hunt_id)
        result == IF ~IsSome(h) THEN "HuntNotFound"
                  ELSE activate_check(Unwrap(h), caller)
    IN  /\ last' = CoreCall("activate_hunt", invoker, hunt_id, caller,
                            << >>, result)
        /\ IF result = "Ok"
           THEN hunts' = [hunts EXCEPT ![hunt_id] =
                    Some([Unwrap(h) EXCEPT !.status = "Active",
                                           !.activated_at = now])]
           ELSE UNCHANGED hunts
        /\ CoreUnchangedExcept({"hunts"})
        /\ RmSideUnchanged
        /\ UNCHANGED now

\* HuntyCore::deactivate_hunt, line 300: the hunt goes back to Draft
\* (deactivated_as_completed: the hunt is marked Completed.)
deactivated_as_completed(hunt) == [hunt EXCEPT !.status = "Completed"]
deactivated(hunt) == [hunt EXCEPT !.status = "Draft"]

\* HuntyCore::deactivate_hunt
deactivate_hunt(invoker, hunt_id, caller) ==
    LET h == get_hunt(hunt_id)
        result == IF ~IsSome(h) THEN "HuntNotFound"
                  ELSE IF caller # Unwrap(h).creator THEN "Unauthorized"
                  ELSE IF Unwrap(h).status # "Active"
                       THEN "InvalidHuntStatus"
                  ELSE "Ok"
    IN  /\ last' = CoreCall("deactivate_hunt", invoker, hunt_id, caller,
                            << >>, result)
        /\ IF result = "Ok"
           THEN hunts' = [hunts EXCEPT ![hunt_id] =
                    Some(deactivated(Unwrap(h)))]
           ELSE UNCHANGED hunts
        /\ CoreUnchangedExcept({"hunts"})
        /\ RmSideUnchanged
        /\ UNCHANGED now

\* HuntyCore::cancel_hunt, lines 317-329: the checks, in order
\* (cancel_check_repeat: a Cancelled hunt is not refused.)
cancel_check_repeat(hunt, caller) ==
    IF caller # hunt.creator THEN "Unauthorized"
    ELSE IF hunt.status = "Completed" THEN "InvalidHuntStatus"
    ELSE "Ok"

cancel_check(hunt, caller) ==
    IF caller # hunt.creator THEN "Unauthorized"
    ELSE IF hunt.status = "Completed" THEN "InvalidHuntStatus"
    ELSE IF hunt.status = "Cancelled" THEN "InvalidHuntStatus"
    ELSE "Ok"

\* HuntyCore::cancel_hunt
cancel_hunt(invoker, hunt_id, caller) ==
    LET h == get_hunt(hunt_id)
        result == IF ~IsSome(h) THEN "HuntNotFound"
                  ELSE cancel_check(Unwrap(h), caller)
    IN  /\ last' = CoreCall("cancel_hunt", invoker, hunt_id, caller,
                            << >>, result)
        /\ IF result = "Ok"
           THEN hunts' = [hunts EXCEPT ![hunt_id] =
                    Some([Unwrap(h) EXCEPT !.status = "Cancelled"])]
           ELSE UNCHANGED hunts
        /\ CoreUnchangedExcept({"hunts"})
        /\ RmSideUnchanged
        /\ UNCHANGED now

\* HuntyCore::set_reward_manager
set_reward_manager(addr) ==
    /\ reward_manager' = Some(addr)
    /\ last' = CoreCall("set_reward_manager", "any", 0, addr, << >>, "Ok")
    /\ CoreUnchangedExcept({"reward_manager"})
    /\ RmSideUnchanged
    /\ UNCHANGED now

\* Storage::get_player_progress
get_player_progress(hunt_id, player) == progress[<< hunt_id, player >>]

\* HuntyCore::register_player, lines 521-532: the checks on the hunt and on
\* the stored progress (existing), in order
\* (register_check_no_duplicate_test: an existing record is not looked for.)
register_check_no_duplicate_test(hunt, existing, current_time) ==
    IF hunt.status # "Active" THEN "InvalidHuntStatus"
    ELSE IF ~is_active(hunt, current_time) THEN "HuntNotActive"
    ELSE "Ok"

register_check(hunt, existing, current_time) ==
    IF hunt.status # "Active" THEN "InvalidHuntStatus"
    ELSE IF ~is_active(hunt, current_time) THEN "HuntNotActive"
    ELSE IF IsSome(existing) THEN "DuplicateRegistration"
    ELSE "Ok"

\* HuntyCore::register_player
register_player(invoker, hunt_id, player) ==
    LET h == get_hunt(hunt_id)
        result ==
            IF invoker # player THEN "Panic:auth"
            ELSE IF ~IsSome(h) THEN "HuntNotFound"
            ELSE register_check(Unwrap(h),
                                get_player_progress(hunt_id, player), now)
    IN  /\ last' = CoreCall("register_player", invoker, hunt_id, player,
                            << >>, result)
        /\ IF result = "Ok"
           THEN /\ progress' = [progress EXCEPT ![<< hunt_id, player >>] =
                       Some(NewPlayerProgress(player, hunt_id, now))]
                /\ hunt_players' = [hunt_players EXCEPT ![hunt_id] =
                                        Append(@, player)]
           ELSE UNCHANGED << progress, hunt_players >>
        /\ CoreUnchangedExcept({"progress", "hunt_players"})
        /\ RmSideUnchanged
        /\ UNCHANGED now

\* HuntyCore::submit_answer, lines 618-641: the progress after a correct
\* answer to clue, given at current_time.
\* (answer_accepted_restamps: the completion is stamped again on every
\* accepted answer once all required clues are completed.)
answer_accepted_restamps(hunt_id, pg, clue, current_time) ==
    LET p1 == complete_clue(pg, clue.clue_id, clue.points)
        all_required_completed ==
            check_all_required_clues_completed(hunt_id, p1)
    IN  IF all_required_completed
        THEN [p1 EXCEPT !.is_completed = TRUE,
                        !.completed_at = current_time]
        ELSE p1

answer_accepted(hunt_id, pg, clue, current_time) ==
    LET p1 == complete_clue(pg, clue.clue_id, clue.points)
        all_required_completed ==
            check_all_required_clues_completed(hunt_id, p1)
    IN  IF all_required_completed /\ ~p1.is_completed
        THEN [p1 EXCEPT !.is_completed = TRUE,
                        !.completed_at = current_time]
        ELSE p1

\* HuntyCore::submit_answer, lines 596-616: the checks on the player's
\* progress and on the submitted answer's hash (None when the answer does
\* not normalize), in order
\* (answer_check_resubmit: a clue already completed is not refused.)
answer_check_resubmit(pg, clue, submitted_hash) ==
    IF ~IsSome(submitted_hash) THEN "InvalidAnswer"
    ELSE IF Unwrap(submitted_hash) # clue.answer_hash THEN "InvalidAnswer"
    ELSE "Ok"

answer_check(pg, clue, submitted_hash) ==
    IF has_completed_clue(pg, clue.clue_id) THEN "ClueAlreadyCompleted"
    ELSE IF ~IsSome(submitted_hash) THEN "InvalidAnswer"
    ELSE IF Unwrap(submitted_hash) # clue.answer_hash THEN "InvalidAnswer"
    ELSE "Ok"

\* HuntyCore::submit_answer
submit_answer(invoker, hunt_id, clue_id, player, answer) ==
    LET h == get_hunt(hunt_id)
        pg == get_player_progress(hunt_id, player)
        clue_exists == clue_id \in 1..Len(clues[hunt_id])
        submitted_hash == normalize_and_hash_answer(answer)
        result ==
            IF invoker # player THEN "Panic:auth"
            ELSE IF ~IsSome(h) THEN "HuntNotFound"
            ELSE IF ~is_active(Unwrap(h), now) THEN "HuntNotActive"
            ELSE IF ~IsSome(pg) THEN "PlayerNotRegistered"
            ELSE IF ~clue_exists THEN "ClueNotFound"
            ELSE answer_check(Unwrap(pg), clues[hunt_id][clue_id],
                              submitted_hash)
    IN  /\ last' = CoreCall("submit_answer", invoker, hunt_id, player,
                            << clue_id, answer >>, result)
        /\ IF result = "Ok"
           THEN progress' = [progress EXCEPT ![<< hunt_id, player >>] =
                    Some(answer_accepted(hunt_id, Unwrap(pg),
                                         clues[hunt_id][clue_id], now))]
           ELSE UNCHANGED progress
        /\ CoreUnchangedExcept({"progress"})
        /\ RmSideUnchanged
        /\ UNCHANGED now

\* ------------------------------------------------ HuntyCore: leaderboard
\* An entry of the leaderboard's working list is the tuple (player,
\* total_score, completed_at, is_completed) of one PlayerProgress, here a
\* record.  Indexes are 1-based; the code's are 0-based.

\* HuntyCore::leaderboard_best_index, lines 784-794: a_val < b_val, where a
\* completion time of 0 counts as u64::MAX (completion times themselves are
\* below u64::MAX).
\* (completed_at_before_zero_first: 0 is compared as the number 0.)
completed_at_before_zero_first(completed_at, b_completed_at) ==
    completed_at < b_completed_at

completed_at_before(completed_at, b_completed_at) ==
    IF completed_at = 0 THEN FALSE
    ELSE IF b_completed_at = 0 THEN TRUE
    ELSE completed_at < b_completed_at

\* HuntyCore::leaderboard_best_index, lines 778-798: is entry e better than
\* the best entry b found so far
\* (better_or_equal: an entry equal on both keys replaces the best so far.)
better_or_equal(e, b) ==
    IF e.score > b.score THEN TRUE
    ELSE IF e.score = b.score
         THEN ~completed_at_before(b.completed_at, e.completed_at)
    ELSE FALSE

better(e, b) ==
    IF e.score > b.score THEN TRUE
    ELSE IF e.score = b.score
         THEN completed_at_before(e.completed_at, b.completed_at)
    ELSE FALSE

\* HuntyCore::leaderboard_best_index: the loop from index i on, best_idx
\* being the best index found before i (None or Some)
RECURSIVE best_index_from(_, _, _, _)
best_index_from(entries, selected, i, best_idx) ==
    IF i > Len(entries) THEN best_idx
    ELSE
    LET taken == \E j \in 1..Len(selected) : selected[j] = i
        is_better == IF ~IsSome(best_idx) THEN TRUE
                     ELSE better(entries[i], entries[Unwrap(best_idx)])
    IN  IF taken THEN best_index_from(entries, selected, i + 1, best_idx)
        ELSE IF is_better
             THEN best_index_from(entries, selected, i + 1, Some(i))
        ELSE best_index_from(entries, selected, i + 1, best_idx)

leaderboard_best_index(entries, selected) ==
    best_index_from(entries, selected, 1, None)

\* HuntyCore::get_hunt_leaderboard, lines 735-749: the selection loop from
\* rank on
RECURSIVE select_from(_, _, _, _, _)
select_from(entries, selected, result, rank, effective_limit) ==
    IF rank > effective_limit THEN result
    ELSE
    LET best == leaderboard_best_index(entries, selected)
    IN  IF ~IsSome(best) THEN result
        ELSE
        LET e == entries[Unwrap(best)]
        IN  select_from(entries, Append(selected, Unwrap(best)),
                        Append(result,
                               [ rank |-> rank, player |-> e.player,
                                 score |-> e.score,
                                 completed_at |-> e.completed_at,
                                 is_completed |-> e.is_completed ]),
                        rank + 1, effective_limit)

\* HuntyCore::get_hunt_leaderboard, line 722
\* (effective_limit_uncapped: the limit is used as given.)
effective_limit_uncapped(limit) == limit

effective_limit(limit) ==
    IF limit < MAX_LEADERBOARD_SIZE THEN limit ELSE MAX_LEADERBOARD_SIZE

\* HuntyCore::get_hunt_leaderboard, lines 722-751, on the list of entries
leaderboard(entries, limit) ==
    select_from(entries, << >>, << >>, 1, effective_limit(limit))

\* Storage::get_hunt_players with lines 724-733: the entries of the hunt's
\* registered players, in the order of the stored player list
leaderboard_entries(hunt_id) ==
    [ i \in 1..Len(hunt_players[hunt_id]) |->
        LET p == Unwrap(progress[<< hunt_id, hunt_players[hunt_id][i] >>])
        IN  [ player |-> p.player, score |-> p.total_score,
              completed_at |-> p.completed_at,
              is_completed |-> p.is_completed ] ]

\* HuntyCore::get_hunt_leaderboard (read-only); last.arg holds the entries
\* read, the limit and the entries returned.
get_hunt_leaderboard(hunt_id, limit) ==
    LET h == get_hunt(hunt_id)
        entries == IF IsSome(h) THEN leaderboard_entries(hunt_id) ELSE << >>
    IN  /\ last' = CoreCall("get_hunt_leaderboard", "any", hunt_id, "-",
                            << entries, limit,
                               IF IsSome(h) THEN leaderboard(entries, limit)
                               ELSE << >> >>,
                            IF IsSome(h) THEN "Ok" ELSE "HuntNotFound")
        /\ UNCHANGED core_vars
        /\ RmSideUnchanged
        /\ UNCHANGED now

\* HuntyCore::complete_hunt, lines 399-417: the checks on the player's
\* progress and the hunt's reward configuration, in order
\* (claim_check_config_first: the reward configuration is tested before the
\* player's progress.)
claim_check_config_first(hunt, pg) ==
    IF hunt.reward_config.max_winners = 0 THEN "NoRewardsConfigured"
    ELSE IF ~has_rewards_available(hunt) THEN "InsufficientRewardPool"
    ELSE IF ~pg.is_completed THEN "HuntNotCompleted"
    ELSE IF pg.reward_claimed THEN "RewardAlreadyClaimed"
    ELSE "Ok"

\* (claim_check_active_only: a claim is refused unless the hunt is Active.)
claim_check_active_only(hunt, pg) ==
    IF hunt.status # "Active" THEN "InvalidHuntStatus"
    ELSE IF ~pg.is_completed THEN "HuntNotCompleted"
    ELSE IF pg.reward_claimed THEN "RewardAlreadyClaimed"
    ELSE IF hunt.reward_config.max_winners = 0 THEN "NoRewardsConfigured"
    ELSE IF ~has_rewards_available(hunt) THEN "InsufficientRewardPool"
    ELSE "Ok"

claim_check(hunt, pg) ==
    IF ~pg.is_completed THEN "HuntNotCompleted"
    ELSE IF pg.reward_claimed THEN "RewardAlreadyClaimed"
    ELSE IF hunt.reward_config.max_winners = 0 THEN "NoRewardsConfigured"
    ELSE IF ~has_rewards_available(hunt) THEN "InsufficientRewardPool"
    ELSE "Ok"

\* HuntyCore::complete_hunt, lines 424-457: the RewardConfig handed to
\* the RewardManager
\* (rm_reward_config_whole_pool: the whole pool is requested instead of the
\* share of one winner.)
rm_reward_config_whole_pool(hunt) ==
    LET reward_amount == hunt.reward_config.xlm_pool
        with_nft == hunt.reward_config.nft_enabled
                    /\ IsSome(hunt.reward_config.nft_contract)
    IN  [ xlm_amount |-> IF reward_amount > 0 THEN Some(reward_amount)
                         ELSE None,
          nft_contract |-> IF with_nft THEN hunt.reward_config.nft_contract
                           ELSE None,
          nft_title |-> IF with_nft THEN hunt.title ELSE 0,
          nft_description |-> IF with_nft THEN hunt.description ELSE 0,
          nft_image_uri |-> 0,
          nft_hunt_title |-> IF with_nft THEN hunt.title ELSE 0,
          nft_rarity |-> 0,
          nft_tier |-> 0 ]

rm_reward_config(hunt) ==
    LET reward_amount == reward_per_winner(hunt.reward_config)
        with_nft == hunt.reward_config.nft_enabled
                    /\ IsSome(hunt.reward_config.nft_contract)
    IN  [ xlm_amount |-> IF reward_amount > 0 THEN Some(reward_amount)
                         ELSE None,
          nft_contract |-> IF with_nft THEN hunt.reward_config.nft_contract
                           ELSE None,
          nft_title |-> IF with_nft THEN hunt.title ELSE 0,
          nft_description |-> IF with_nft THEN hunt.description ELSE 0,
          nft_image_uri |-> 0,
          nft_hunt_title |-> IF with_nft THEN hunt.title ELSE 0,
          nft_rarity |-> 0,
          nft_tier |-> 0 ]

\* HuntyCore::complete_hunt, lines 477-483: the writes after a distribution
\* (mark_claimed_skip, count_claim_skip: the write is missing.)
mark_claimed_skip(pg) == pg

mark_claimed(pg) == [pg EXCEPT !.reward_claimed = TRUE]

count_claim_skip(hunt) == hunt

count_claim(hunt) == [hunt EXCEPT !.reward_config.claimed_count = @ + 1]

\* HuntyCore::complete_hunt.  The nested distribute_rewards call runs on the
\* RewardManager's state; when it returns an error the claim returns
\* RewardDistributionFailed, when it panics the claim panics with it.
complete_hunt(invoker, hunt_id, player, accepted) ==
    LET h == get_hunt(hunt_id)
        pg == get_player_progress(hunt_id, player)
        pre == IF invoker # player THEN "Panic:auth"
               ELSE IF ~IsSome(h) THEN "HuntNotFound"
               ELSE IF ~IsSome(pg) THEN "PlayerNotRegistered"
               ELSE claim_check(Unwrap(h), Unwrap(pg))
        cfg == rm_reward_config(Unwrap(h))
        calls_rm == pre = "Ok" /\ IsSome(reward_manager) /\ is_valid(cfg)
        d == distribute(RmState, hunt_id, player, cfg, accepted, now)
        result == IF pre # "Ok" THEN pre
                  ELSE IF ~calls_rm \/ d.result = "Ok" THEN "Ok"
                  ELSE IF d.result \in {"Panic:transfer", "Panic:mint"}
                       THEN d.result
                  ELSE "RewardDistributionFailed"
    IN  /\ (calls_rm /\ has_nft(cfg)) => nft_counter < MaxNfts
        /\ last' = CoreCall("complete_hunt", invoker, hunt_id, player,
                            << >>, result)
        /\ IF result = "Ok"
           THEN /\ progress' = [progress EXCEPT ![<< hunt_id, player >>] =
                       Some(mark_claimed(Unwrap(pg)))]
                /\ hunts' = [hunts EXCEPT ![hunt_id] =
                       Some(count_claim(Unwrap(h)))]
                /\ IF calls_rm THEN SetRmState(d.st) ELSE RmSideUnchanged
           ELSE /\ UNCHANGED << progress, hunts >>
                /\ RmSideUnchanged
        /\ CoreUnchangedExcept({"progress", "hunts"})
        /\ UNCHANGED now

\* Storage::save_hunt of a hunt with a new reward configuration, as the
\* hunt's set-up does before the first activation (HuntyCore has no entry
\* point that writes the reward configuration).
configure_rewards(hunt_id, xlm_pool, nft_enabled, nft_c, max_winners) ==
    LET h == get_hunt(hunt_id)
    IN  /\ IsSome(h)
        /\ Unwrap(h).status = "Draft"
        /\ Unwrap(h).activated_at = 0
        /\ Unwrap(h).reward_config = NewRewardConfig(0, FALSE, None, 0)
        /\ hunts' = [hunts EXCEPT ![hunt_id] =
               Some([Unwrap(h) EXCEPT !.reward_config =
                   NewRewardConfig(xlm_pool, nft_enabled, nft_c,
                                   max_winners)])]
        /\ last' = CoreCall("configure_rewards", "any", hunt_id, "-",
                            << xlm_pool, nft_enabled, nft_c, max_winners >>,
                            "Ok")
        /\ CoreUnchangedExcept({"hunts"})
        /\ RmSideUnchanged
        /\ UNCHANGED now

\* The ledger closes: env.ledger().timestamp() advances.
Tick ==
    /\ now < MaxTime
    /\ now' = now + 1
    /\ last' = CoreCall("tick", "any", 0, "-", << >>, "Ok")
    /\ UNCHANGED core_vars
    /\ RmSideUnchanged

\* ==================================================================== Init
\* Every contract's storage after deployment, before any invocation
InitStorage ==
    /\ now = 1
    /\ hunt_counter = 0
    /\ hunts = [h \in HuntIds |-> None]
    /\ clue_counter = [h \in HuntIds |-> 0]
    /\ clues = [h \in HuntIds |-> << >>]
    /\ progress = [pr \in Pairs |-> None]
    /\ hunt_players = [h \in HuntIds |-> << >>]
    /\ reward_manager = None
    /\ xlm_token = None
    /\ nft_contract = None
    /\ pool = [h \in HuntIds |-> 0]
    /\ distributed = [pr \in Pairs |-> FALSE]
    /\ dist_record = [pr \in Pairs |-> None]
    /\ token_bal = [a \in Accounts |-> IF a \in Funders THEN InitialTokens ELSE 0]
    /\ nft_counter = 0
    /\ nfts = << >>
    /\ owner_nfts = [a \in Players |-> << >>]

Init ==
    /\ InitStorage
    /\ last = Call("init", "any", 0, "-", 0, NoConfig, "Ok")

\* ------------------------------------------- RewardManager called directly
NextRM ==
    \/ initialize(XlmToken)
    \/ \E c \in NftContracts : set_nft_reward_contract(c)
    \/ \E i \in Addrs, f \in Funders, h \in HuntIds, a \in AmountInputs,
          ok \in BOOLEAN : fund_reward_pool(i, f, h, a, ok)
    \/ \E h \in HuntIds, p \in Players, cfg \in Configs, ok \in BOOLEAN :
          distribute_rewards(h, p, cfg, ok)

SpecRM == Init /\ [][NextRM]_vars

\* ------------------------------------------------ HuntyCore: hunt lifecycle
\* The hunts the players and the creator act on; further hunts may exist.
FocusHunts == {1}
TitleInputs == {0, 4}
EndTimeInputs == {None, Some(1)}
ClueAnswerInputs == { << 97 >>, << 32 >> }
AnswerInputs == { << 32, 65, 32 >>, << 98 >> }
FocusPlayers == {"p1"}
LifeAddrs == {Creator, "p1"}

NextLife ==
    \/ \E t \in TitleInputs, e \in EndTimeInputs :
          create_hunt(Creator, t, 4, e)
    \/ \E i \in LifeAddrs, h \in FocusHunts, a \in ClueAnswerInputs,
          r \in BOOLEAN : add_clue(i, h, 4, a, 1, r)
    \/ \E i \in LifeAddrs, h \in FocusHunts, c \in LifeAddrs :
          activate_hunt(i, h, c)
    \/ \E i \in LifeAddrs, h \in FocusHunts, c \in LifeAddrs :
          deactivate_hunt(i, h, c)
    \/ \E i \in LifeAddrs, h \in FocusHunts, c \in LifeAddrs :
          cancel_hunt(i, h, c)
    \/ \E i \in Players, h \in FocusHunts, p \in FocusPlayers :
          register_player(i, h, p)
    \/ \E i \in Players, h \in FocusHunts, c \in 1..MaxClues,
          p \in FocusPlayers, a \in AnswerInputs :
          submit_answer(i, h, c, p, a)

SpecLife == Init /\ [][NextLife]_vars

\* --------------------------- HuntyCore with the RewardManager: reward claims
NextClaim ==
    \/ create_hunt(Creator, 4, 4, None)
    \/ \E h \in FocusHunts :
          clue_counter[h] = 0 /\ add_clue(Creator, h, 4, << 97 >>, 1, TRUE)
    \/ \E h \in FocusHunts, x \in 0..MaxPool, w \in 0..MaxWinners :
          configure_rewards(h, x, FALSE, None, w)
    \/ \E h \in FocusHunts : activate_hunt(Creator, h, Creator)
    \/ \E h \in FocusHunts, p \in Players : register_player(p, h, p)
    \/ \E h \in FocusHunts, p \in Players :
          submit_answer(p, h, 1, p, << 97 >>)
    \/ initialize(XlmToken)
    \/ set_reward_manager(RM)
    \/ \E h \in FocusHunts, a \in 1..MaxAmount :
          fund_reward_pool(Creator, Creator, h, a, TRUE)
    \/ \E i \in Players, h \in FocusHunts, p \in Players, ok \in BOOLEAN :
          complete_hunt(i, h, p, ok)

SpecClaim == Init /\ [][NextClaim]_vars

\* ---------------- HuntyCore and the RewardManager's entry points side by side
\* RewardManager::distribute_rewards is a contract entry point: besides
\* HuntyCore, any account can invoke it with a configuration of its choosing.
XlmOnlyConfig(a) ==
    [ xlm_amount |-> Some(a), nft_contract |-> None,
      nft_title |-> 0, nft_description |-> 0, nft_image_uri |-> 0,
      nft_hunt_title |-> 0, nft_rarity |-> 0, nft_tier |-> 0 ]

NextOpen ==
    \/ create_hunt(Creator, 4, 4, None)
    \/ \E h \in FocusHunts :
          clue_counter[h] = 0 /\ add_clue(Creator, h, 4, << 97 >>, 1, TRUE)
    \/ \E h \in FocusHunts, x \in 0..MaxPool, w \in 0..MaxWinners :
          configure_rewards(h, x, FALSE, None, w)
    \/ \E h \in FocusHunts : activate_hunt(Creator, h, Creator)
    \/ \E h \in FocusHunts, p \in Players : register_player(p, h, p)
    \/ \E h \in FocusHunts, p \in Players :
          submit_answer(p, h, 1, p, << 97 >>)
    \/ initialize(XlmToken)
    \/ set_reward_manager(RM)
    \/ \E h \in FocusHunts, a \in 1..MaxAmount :
          fund_reward_pool(Creator, Creator, h, a, TRUE)
    \/ \E h \in FocusHunts, p \in Players : complete_hunt(p, h, p, TRUE)
    \/ \E h \in FocusHunts, p \in Players, a \in 1..MaxAmount :
          distribute_rewards(h, p, XlmOnlyConfig(a), TRUE)

SpecOpen == Init /\ [][NextOpen]_vars

\* ------------------------------------- reward claims on hunts with an NFT
NftContractInputs == {None} \cup { Some(c) : c \in NftContracts }

NextNftClaim ==
    \/ create_hunt(Creator, 4, 4, None)
    \/ \E h \in FocusHunts :
          clue_counter[h] = 0 /\ add_clue(Creator, h, 4, << 97 >>, 1, TRUE)
    \/ \E h \in FocusHunts, x \in 0..MaxPool, e \in BOOLEAN,
          c \in NftContractInputs :
          configure_rewards(h, x, e, c, 1)
    \/ \E h \in FocusHunts : activate_hunt(Creator, h, Creator)
    \/ \E h \in FocusHunts, p \in FocusPlayers : register_player(p, h, p)
    \/ \E h \in FocusHunts, p \in FocusPlayers :
          submit_answer(p, h, 1, p, << 97 >>)
    \/ initialize(XlmToken)
    \/ \E c \in NftContracts : set_nft_reward_contract(c)
    \/ set_reward_manager(RM)
    \/ \E h \in FocusHunts, a \in 1..MaxAmount :
          fund_reward_pool(Creator, Creator, h, a, TRUE)
    \/ \E h \in FocusHunts, p \in FocusPlayers : complete_hunt(p, h, p, TRUE)

SpecNftClaim == Init /\ [][NextNftClaim]_vars

\* ----------------------------------------- HuntyCore: hunts with an end time
NextTime ==
    \/ \E e \in {None, Some(MaxTime)} : create_hunt(Creator, 4, 4, e)
    \/ \E h \in FocusHunts, r \in BOOLEAN :
          add_clue(Creator, h, 4, << 97 >>, 1, r)
    \/ \E h \in FocusHunts : activate_hunt(Creator, h, Creator)
    \/ \E h \in FocusHunts : deactivate_hunt(Creator, h, Creator)
    \/ \E h \in FocusHunts : cancel_hunt(Creator, h, Creator)
    \/ \E h \in FocusHunts, p \in FocusPlayers : register_player(p, h, p)
    \/ \E h \in FocusHunts, c \in 1..MaxClues, p \in FocusPlayers,
          a \in { << 97 >>, << 98 >> } : submit_answer(p, h, c, p, a)
    \/ Tick

SpecTime == Init /\ [][NextTime]_vars

\* ------------------------------------------- HuntyCore: clues and scores
PointInputs == {1, 2}

NextScore ==
    \/ create_hunt(Creator, 4, 4, None)
    \/ \E h \in FocusHunts, pt \in PointInputs, r \in BOOLEAN :
          add_clue(Creator, h, 4, << 97 >>, pt, r)
    \/ \E h \in FocusHunts : activate_hunt(Creator, h, Creator)
    \/ \E h \in FocusHunts : deactivate_hunt(Creator, h, Creator)
    \/ \E h \in FocusHunts, p \in Players : register_player(p, h, p)
    \/ \E h \in FocusHunts, c \in 1..(MaxClues + 1), p \in Players,
          a \in { << 97 >>, << 98 >> } : submit_answer(p, h, c, p, a)
    \/ \E h \in HuntIds, k \in {0, 1, MaxBoard} : get_hunt_leaderboard(h, k)

SpecScore == Init /\ [][NextScore]_vars

\* --------------------------------- the leaderboard on given progress lists
\* Score and completion time of one player, as a pair; a completion time of
\* 0 means the player has not completed the hunt.
BoardEntryValues == (0..MaxScore) \X (0..MaxTime)

\* The entries of the players registered 1st, 2nd, ... with these values
BoardOf(vals) ==
    [ i \in 1..Len(vals) |->
        [ player |-> i, score |-> vals[i][1],
          completed_at |-> vals[i][2],
          is_completed |-> vals[i][2] > 0 ] ]

ShortBoards == UNION { [1..n -> BoardEntryValues] : n \in 0..MaxBoard }

\* Lists of more players than the leaderboard returns
LongBoards ==
    { [ i \in 1..(MAX_LEADERBOARD_SIZE + 1) |->
          << (i * a) % (MaxScore + 1), (i * b) % (MaxTime + 1) >> ] :
      a \in 0..2, b \in 0..2 }

LimitInputs ==
    0..(MaxBoard + 1) \cup {MAX_LEADERBOARD_SIZE, MAX_LEADERBOARD_SIZE + 1}

\* The leaderboard is asked for on the progress values and with the limit
\* held in last.arg.
InitBoard ==
    /\ InitStorage
    /\ \E vals \in ShortBoards \cup LongBoards, k \in LimitInputs :
          last = CoreCall("leaderboard_input", "any", 0, "-",
                          << vals, k >>, "Ok")

\* HuntyCore::get_hunt_leaderboard, lines 722-751, on the entries given
leaderboard_of(vals, limit) ==
    /\ last' = CoreCall("get_hunt_leaderboard", "any", 0, "-",
                        << BoardOf(vals), limit,
                           leaderboard(BoardOf(vals), limit) >>,
                        "Ok")
    /\ UNCHANGED core_vars
    /\ RmSideUnchanged
    /\ UNCHANGED now

NextBoard ==
    /\ last.op = "leaderboard_input"
    /\ leaderboard_of(last.arg[1], last.arg[2])

SpecBoard == InitBoard /\ [][NextBoard]_vars

\* ------------------------------------------------ a hunt that is nearly full
\* A Draft hunt of the creator that has taken MAX_CLUES_PER_HUNT - 1 clues,
\* as left by one create_hunt and that many add_clue calls
\* (test_add_clue_too_many_clues, test.rs 732-755).
NearlyFull == MAX_CLUES_PER_HUNT - 1

FullClue(i) ==
    [ clue_id |-> i, question |-> 4,
      answer_hash |-> Unwrap(normalize_and_hash_answer(<< 97 >>)),
      points |-> 1, is_required |-> (i = 1) ]

FullHunt ==
    [ hunt_id |-> 1, creator |-> Creator, title |-> 4, description |-> 4,
      status |-> "Draft", created_at |-> 1, activated_at |-> 0,
      end_time |-> 0, reward_config |-> NewRewardConfig(0, FALSE, None, 0),
      total_clues |-> NearlyFull, required_clues |-> 0 ]

InitFull ==
    /\ now = 1
    /\ hunt_counter = 1
    /\ hunts = [h \in HuntIds |-> IF h = 1 THEN Some(FullHunt) ELSE None]
    /\ clue_counter = [h \in HuntIds |-> IF h = 1 THEN NearlyFull ELSE 0]
    /\ clues = [h \in HuntIds |->
                  IF h = 1 THEN [i \in 1..NearlyFull |-> FullClue(i)]
                  ELSE << >>]
    /\ progress = [pr \in Pairs |-> None]
    /\ hunt_players = [h \in HuntIds |-> << >>]
    /\ reward_manager = None
    /\ xlm_token = None
    /\ nft_contract = None
    /\ pool = [h \in HuntIds |-> 0]
    /\ distributed = [pr \in Pairs |-> FALSE]
    /\ dist_record = [pr \in Pairs |-> None]
    /\ token_bal = [a \in Accounts |-> IF a \in Funders THEN InitialTokens ELSE 0]
    /\ nft_counter = 0
    /\ nfts = << >>
    /\ owner_nfts = [a \in Players |-> << >>]
    /\ last = Call("init", "any", 0, "-", 0, NoConfig, "Ok")

NextFull ==
    \/ \E i \in LifeAddrs, h \in FocusHunts, q \in {0, 4},
          a \in ClueAnswerInputs : add_clue(i, h, q, a, 1, FALSE)
    \/ \E h \in FocusHunts : activate_hunt(Creator, h, Creator)
    \/ \E h \in FocusHunts : deactivate_hunt(Creator, h, Creator)
    \/ \E h \in FocusHunts : cancel_hunt(Creator, h, Creator)
    \/ \E h \in FocusHunts, p \in FocusPlayers : register_player(p, h, p)
    \/ \E h \in FocusHunts, c \in {1, MAX_CLUES_PER_HUNT},
          p \in FocusPlayers, a \in AnswerInputs \cup ClueAnswerInputs :
          submit_answer(p, h, c, p, a)

SpecFull == InitFull /\ [][NextFull]_vars

\* ------------------------------------------------------ answer normalization
\* Bytes of an answer: tab, LF, vertical tab, CR, space, 'A', 'Z', 'a', 'b'.
AnswerBytes == {9, 10, 11, 13, 32, 65, 90, 97, 98}
SubmittedAnswers == UNION { [1..n -> AnswerBytes] : n \in 0..MaxAnswerLen }
StoredAnswers ==
    { << 97 >>, << 65 >>, << 98 >>, << 97, 32, 98 >>, << 97, 98 >>,
      << 11, 97 >>, << 9, 122, 13 >>, << 32, 10 >>, << >> }

\* A stored and a submitted answer are handed over in last.arg.
InitAnswers ==
    /\ InitStorage
    /\ \E stored \in StoredAnswers, submitted \in SubmittedAnswers :
          last = CoreCall("answer_input", "any", 0, "-",
                          << stored, submitted >>, "Ok")

\* HuntyCore::normalize_and_hash_answer applied to the stored answer (as in
\* add_clue, line 161), to the submitted answer (as in submit_answer) and to
\* the bytes that were hashed for the submitted answer.
hash_answers(stored, submitted) ==
    LET stored_hash == normalize_and_hash_answer(stored)
        submitted_hash == normalize_and_hash_answer(submitted)
        again == IF IsSome(submitted_hash)
                 THEN normalize_and_hash_answer(
                          Unwrap(submitted_hash).sha256_of)
                 ELSE None
    IN  /\ last' = CoreCall("normalize_and_hash_answer", "any", 0, "-",
                            << stored, submitted, stored_hash,
                               submitted_hash, again >>,
                            "Ok")
        /\ UNCHANGED core_vars
        /\ RmSideUnchanged
        /\ UNCHANGED now

NextAnswers ==
    /\ last.op = "answer_input"
    /\ hash_answers(last.arg[1], last.arg[2])

SpecAnswers == InitAnswers /\ [][NextAnswers]_vars

\* ------------------------------------------------- NftReward's entry points
\* Storage::remove_nft_from_owner: the id leaves the owner's list
remove_nft_from_owner(o, owner, nft_id) ==
    [o EXCEPT ![owner] = SelectSeq(@, LAMBDA id : id # nft_id)]

\* Storage::get_nft
get_nft(nft_id) == IF nft_id \in DOMAIN nfts THEN Some(nfts[nft_id]) ELSE None

NftFrame ==
    /\ UNCHANGED core_vars
    /\ UNCHANGED << xlm_token, nft_contract, pool, distributed, dist_record,
                    token_bal >>
    /\ UNCHANGED now

\* NftReward::mint_reward_nft called directly; last.arg holds the metadata
\* and the id returned.
mint(hunt_id, player_address, metadata) ==
    LET m == mint_reward_nft(NftState, hunt_id, player_address, metadata, now)
    IN  /\ nft_counter < MaxMints
        /\ nft_counter' = m.st.nft_counter
        /\ nfts' = m.st.nfts
        /\ owner_nfts' = m.st.owner_nfts
        /\ last' = CoreCall("mint_reward_nft", "any", hunt_id, player_address,
                            << metadata, m.nft_id >>, "Ok")
        /\ NftFrame

\* NftReward::update_nft_metadata, lines 227-233: the checks, in order
update_check(invoker, nft, updater) ==
    IF invoker # updater THEN "Panic:auth"
    ELSE IF ~IsSome(nft) THEN "NftNotFound"
    ELSE IF Unwrap(nft).owner # updater THEN "NotOwner"
    ELSE "Ok"

\* NftReward::update_nft_metadata, lines 235-236
\* (with_display_retitled: the title is overwritten as well.)
with_display_retitled(metadata, new_description, new_image_uri) ==
    [metadata EXCEPT !.description = new_description,
                     !.image_uri = new_image_uri,
                     !.title = new_description]
with_display(metadata, new_description, new_image_uri) ==
    [metadata EXCEPT !.description = new_description,
                     !.image_uri = new_image_uri]

\* NftReward::update_nft_metadata
update_nft_metadata(invoker, nft_id, updater, new_description, new_image_uri) ==
    LET nft == get_nft(nft_id)
        result == update_check(invoker, nft, updater)
    IN  /\ last' = CoreCall("update_nft_metadata", invoker, 0, updater,
                            << nft_id, new_description, new_image_uri >>,
                            result)
        /\ IF result = "Ok"
           THEN nfts' = save_nft(nfts,
                    [Unwrap(nft) EXCEPT !.metadata =
                        with_display(@, new_description, new_image_uri)])
           ELSE UNCHANGED nfts
        /\ UNCHANGED << nft_counter, owner_nfts >>
        /\ NftFrame

\* NftReward::transfer_nft, lines 287-297: the checks, in order
\* (transfer_check_any_recipient: the recipient is not compared.)
transfer_check_any_recipient(invoker, nft, from_address, to_address) ==
    IF invoker # from_address THEN "Panic:auth"
    ELSE IF ~IsSome(nft) THEN "NftNotFound"
    ELSE IF Unwrap(nft).owner # from_address THEN "NotOwner"
    ELSE "Ok"
transfer_check(invoker, nft, from_address, to_address) ==
    IF invoker # from_address THEN "Panic:auth"
    ELSE IF ~IsSome(nft) THEN "NftNotFound"
    ELSE IF Unwrap(nft).owner # from_address THEN "NotOwner"
    ELSE IF to_address = from_address THEN "InvalidRecipient"
    ELSE "Ok"

\* NftReward::transfer_nft
transfer_nft(invoker, nft_id, from_address, to_address) ==
    LET nft == get_nft(nft_id)
        result == transfer_check(invoker, nft, from_address, to_address)
    IN  /\ last' = CoreCall("transfer_nft", invoker, 0, from_address,
                            << nft_id, to_address >>, result)
        /\ IF result = "Ok"
           THEN /\ nfts' = save_nft(nfts,
                              [Unwrap(nft) EXCEPT !.owner = to_address])
                /\ owner_nfts' =
                       add_nft_to_owner(
                           remove_nft_from_owner(owner_nfts, from_address,
                                                 nft_id),
                           to_address, nft_id)
           ELSE UNCHANGED << nfts, owner_nfts >>
        /\ UNCHANGED nft_counter
        /\ NftFrame

\* The metadata a player's NFT is minted with, and the display texts of an
\* update; texts as lengths
MetadataInput(p) ==
    IF p = "p1" THEN NftMetadata(1, 1, 1, 1, 0, 0)
    ELSE NftMetadata(2, 1, 1, 2, 1, 1)
DisplayInputs == { << 2, 3 >> }

NextNft ==
    \/ \E h \in FocusHunts, p \in Players : mint(h, p, MetadataInput(p))
    \/ \E i \in Players, n \in 1..(MaxMints + 1), u \in Players,
          d \in DisplayInputs : update_nft_metadata(i, n, u, d[1], d[2])
    \/ \E i \in Players, n \in 1..(MaxMints + 1), f \in Players,
          t \in Players : transfer_nft(i, n, f, t)

SpecNft == Init /\ [][NextNft]_vars

\* ------------------------------------------- all three contracts, with calls
\* that fail
NextErr ==
    \/ \E t \in TitleInputs : hunt_counter = 0 /\ create_hunt(Creator, t, 4, None)
    \/ \E i \in LifeAddrs, h \in FocusHunts, a \in ClueAnswerInputs :
          clue_counter[h] = 0 /\ add_clue(i, h, 4, a, 1, TRUE)
    \/ \E h \in FocusHunts : configure_rewards(h, MaxPool, FALSE, None, 1)
    \/ \E h \in FocusHunts, c \in LifeAddrs : activate_hunt(c, h, c)
    \/ \E h \in FocusHunts : deactivate_hunt(Creator, h, Creator)
    \/ \E h \in FocusHunts : cancel_hunt(Creator, h, Creator)
    \/ \E h \in FocusHunts, p \in FocusPlayers : register_player(p, h, p)
    \/ \E h \in FocusHunts, p \in FocusPlayers, a \in { << 97 >>, << 98 >> } :
          submit_answer(p, h, 1, p, a)
    \/ initialize(XlmToken)
    \/ set_reward_manager(RM)
    \/ \E h \in FocusHunts, a \in {0, MaxAmount}, ok \in BOOLEAN :
          fund_reward_pool(Creator, Creator, h, a, ok)
    \/ \E h \in FocusHunts, p \in FocusPlayers, ok \in BOOLEAN :
          complete_hunt(p, h, p, ok)
    \/ \E h \in FocusHunts, p \in FocusPlayers, a \in {0, MaxAmount} :
          distribute_rewards(h, p, XlmOnlyConfig(a), TRUE)
    \/ \E p \in FocusPlayers :
          nft_counter = 0 /\ mint(1, p, MetadataInput(p))
    \/ \E n \in {1, 2}, u \in Players, d \in DisplayInputs :
          update_nft_metadata(u, n, u, d[1], d[2])
    \/ \E n \in {1, 2}, f \in Players, t \in Players :
          transfer_nft(f, n, f, t)

SpecErr == Init /\ [][NextErr]_vars

\* -------------------------------- claims on hunts that change status or end
NextLate ==
    \/ \E e \in {None, Some(MaxTime)} :
          hunt_counter = 0 /\ create_hunt(Creator, 4, 4, e)
    \/ \E h \in FocusHunts, r \in BOOLEAN :
          add_clue(Creator, h, 4, << 97 >>, 1, r)
    \/ \E h \in FocusHunts : configure_rewards(h, MaxPool, FALSE, None, 1)
    \/ \E h \in FocusHunts : activate_hunt(Creator, h, Creator)
    \/ \E h \in FocusHunts : deactivate_hunt(Creator, h, Creator)
    \/ \E h \in FocusHunts : cancel_hunt(Creator, h, Creator)
    \/ \E h \in FocusHunts, p \in FocusPlayers : register_player(p, h, p)
    \/ \E h \in FocusHunts, c \in 1..MaxClues, p \in FocusPlayers :
          submit_answer(p, h, c, p, << 97 >>)
    \/ xlm_token = None /\ initialize(XlmToken)
    \/ reward_manager = None /\ set_reward_manager(RM)
    \/ \E h \in FocusHunts :
          pool[h] = 0 /\ fund_reward_pool(Creator, Creator, h, MaxPool, TRUE)
    \/ \E h \in FocusHunts, p \in FocusPlayers : complete_hunt(p, h, p, TRUE)
    \/ Tick

SpecLate == Init /\ [][NextLate]_vars

\* ================================================================== claims
\* The step is a direct distribute_rewards call for the pair pr.
DistCall(pr) ==
    /\ last'.op = "distribute_rewards"
    /\ last'.hunt = pr[1]
    /\ last'.player = pr[2]

RmUnchanged ==
    UNCHANGED << pool, distributed, dist_record, token_bal, nft_counter,
                 nfts, owner_nfts >>

\* C1 (as stated): once a pair has been distributed, every later
\* distribute_rewards call for it fails with AlreadyDistributed and leaves
\* pool, marker, record and token balances unchanged.
C1_LaterCallsAlreadyDistributed ==
    [][ \A pr \in Pairs :
          (distributed[pr] /\ DistCall(pr)) =>
              /\ last'.result = "AlreadyDistributed"
              /\ UNCHANGED << pool, distributed, dist_record, token_bal >>
      ]_vars

\* C1 (amended): at most one distribute_rewards call per (hunt, player)
\* succeeds: a call succeeds only while the marker is unset and sets it, the
\* marker is never cleared, and every later call for the pair fails, with
\* AlreadyDistributed when its configuration names a reward type and with
\* InvalidConfig when it names none, leaving pool, marker, record and token
\* balances unchanged.
C1_AtMostOneDistribution ==
    [][ \A pr \in Pairs :
          /\ distributed[pr] => distributed'[pr]
          /\ (DistCall(pr) /\ last'.result = "Ok") =>
                (~distributed[pr] /\ distributed'[pr])
          /\ (distributed[pr] /\ DistCall(pr)) =>
                /\ last'.result = IF is_valid(last'.cfg)
                                  THEN "AlreadyDistributed"
                                  ELSE "InvalidConfig"
                /\ UNCHANGED << pool, distributed, dist_record, token_bal >>
      ]_vars

\* C1 witness: a second call for an already distributed pair was rejected.
C1_Witness ==
    /\ last.op = "distribute_rewards"
    /\ last.result = "AlreadyDistributed"
    /\ distributed[<< last.hunt, last.player >>]
    /\ token_bal[last.player] > 0

\* C2: a distribute_rewards call that requests both an XLM amount and an NFT
\* and whose token transfer or NFT mint fails leaves the pool balance, the
\* marker, the record, the NFT counter and registry and every token balance
\* as before the call.
C2_FailedDistributionAtomic ==
    [][ ( /\ last'.op = "distribute_rewards"
          /\ has_xlm(last'.cfg) /\ has_nft(last'.cfg)
          /\ \/ last'.result = "Panic:transfer"
             \/ ~nft_call_ok(Unwrap(last'.cfg.nft_contract)) )
        => RmUnchanged ]_vars

\* C2 witness: a both-rewards distribution whose pool covered the amount and
\* whose transfer was accepted panicked in the mint.
C2_Witness ==
    /\ last.op = "distribute_rewards"
    /\ has_xlm(last.cfg) /\ has_nft(last.cfg)
    /\ last.result = "Panic:mint"
    /\ pool[last.hunt] >= Unwrap(last.cfg.xlm_amount)

\* C6 (as stated): pool balances are never negative, and a distribute_rewards
\* call asking for more than the hunt's pool holds fails with
\* InsufficientPool and changes nothing.
C6_OverdrawInsufficientPool ==
    [][ ( /\ last'.op = "distribute_rewards"
          /\ IsSome(last'.cfg.xlm_amount)
          /\ Unwrap(last'.cfg.xlm_amount) > pool[last'.hunt] )
        => (last'.result = "InsufficientPool" /\ RmUnchanged) ]_vars

\* C6 (amended): pool balances are never negative, and a distribute_rewards
\* call asking for more than the hunt's pool holds fails and changes nothing;
\* the error is AlreadyDistributed when the pair was already distributed,
\* else NotInitialized when no token is set, else InsufficientPool.
C6_OverdrawRejected ==
    /\ [](\A h \in HuntIds : pool[h] >= 0)
    /\ [][ ( /\ last'.op = "distribute_rewards"
             /\ IsSome(last'.cfg.xlm_amount)
             /\ Unwrap(last'.cfg.xlm_amount) > pool[last'.hunt] )
           => /\ last'.result =
                    IF distributed[<< last'.hunt, last'.player >>]
                    THEN "AlreadyDistributed"
                    ELSE IF ~IsSome(xlm_token) THEN "NotInitialized"
                    ELSE "InsufficientPool"
              /\ RmUnchanged ]_vars

\* C6 witness: a call was rejected with InsufficientPool although the
\* contract as a whole held enough tokens (another hunt's pool).
C6_Witness ==
    /\ last.op = "distribute_rewards"
    /\ last.result = "InsufficientPool"
    /\ token_bal[RM] >= Unwrap(last.cfg.xlm_amount)

\* C7: a successful fund_reward_pool(funder, h, a) raises h's pool by exactly
\* a, and a successful distribution on h lowers h's pool by the amount paid;
\* both leave every other hunt's pool unchanged.
C7_PoolsIsolated ==
    [][ /\ (last'.op = "fund_reward_pool" /\ last'.result = "Ok") =>
              /\ last'.amount > 0
              /\ pool' = [pool EXCEPT ![last'.hunt] = @ + last'.amount]
        /\ (last'.op = "distribute_rewards" /\ last'.result = "Ok") =>
              pool' = [pool EXCEPT ![last'.hunt] = @ -
                         (IF has_xlm(last'.cfg)
                          THEN Unwrap(last'.cfg.xlm_amount) ELSE 0)]
      ]_vars

\* C7 witness: a hunt was funded twice (1, then 1, gives 2) and the other
\* hunts' pools are still empty.
C7_Witness ==
    /\ last.op = "fund_reward_pool"
    /\ last.result = "Ok"
    /\ last.amount = 1
    /\ pool[last.hunt] = 2
    /\ \E h \in HuntIds : h # last.hunt /\ pool[h] = 0


\* ------------------------------------------------------- claims, HuntyCore
CoreAndRmUnchanged ==
    /\ UNCHANGED core_vars
    /\ RmUnchanged
    /\ UNCHANGED << xlm_token, nft_contract >>

\* The step is a complete_hunt call for the pair pr, authorized by the player.
ClaimCall(pr) ==
    /\ last'.op = "complete_hunt"
    /\ last'.hunt = pr[1]
    /\ last'.player = pr[2]
    /\ last'.invoker = pr[2]

HasProgress(pr) == IsSome(hunts[pr[1]]) /\ IsSome(progress[pr])
Progress(pr) == Unwrap(progress[pr])
TheHunt(h) == Unwrap(hunts[h])
Rewards(h) == TheHunt(h).reward_config

\* The fungible amount a successful claim on hunt h pays out of h's pool:
\* the share of one winner when a RewardManager is wired, else nothing.
ClaimPayout(h) ==
    IF IsSome(reward_manager) THEN reward_per_winner(Rewards(h)) ELSE 0

ClaimedPlayers(h) ==
    { p \in Players : IsSome(progress[<< h, p >>])
                      /\ Unwrap(progress[<< h, p >>]).reward_claimed }

\* C3: of two complete_hunt calls for the same completed player on the same
\* hunt the first succeeds and the second fails with RewardAlreadyClaimed;
\* the successful call debits the pool once (by the winner's share) and
\* raises claimed_count by one, the rejected call changes nothing, and the
\* claimed flag is never cleared.
C3_DoubleClaimRejected ==
    [][ \A pr \in Pairs : HasProgress(pr) =>
          /\ Progress(pr).reward_claimed =>
                (IsSome(progress'[pr]) /\ Unwrap(progress'[pr]).reward_claimed)
          /\ (ClaimCall(pr) /\ Progress(pr).reward_claimed) =>
                (last'.result = "RewardAlreadyClaimed" /\ CoreAndRmUnchanged)
          /\ (ClaimCall(pr) /\ last'.result = "Ok") =>
                /\ Progress(pr).is_completed
                /\ ~Progress(pr).reward_claimed
                /\ Unwrap(progress'[pr]).reward_claimed
                /\ Unwrap(hunts'[pr[1]]).reward_config.claimed_count =
                       Rewards(pr[1]).claimed_count + 1
                /\ pool' = [pool EXCEPT ![pr[1]] = @ - ClaimPayout(pr[1])]
      ]_vars

\* C3 witness: a player who was paid the share (1 token) claimed again and was
\* rejected; the hunt counts one claim.
C3_Witness ==
    /\ last.op = "complete_hunt"
    /\ last.result = "RewardAlreadyClaimed"
    /\ token_bal[last.player] = 1
    /\ Rewards(last.hunt).claimed_count = 1
    /\ IsSome(dist_record[<< last.hunt, last.player >>])

\* C4 (as stated): claimed_count <= max_winners always, the number of players
\* who claimed never exceeds max_winners, and a claim by a completed player
\* made when claimed_count = max_winners fails with InsufficientRewardPool.
C4_FullHuntInsufficientPool ==
    [][ \A pr \in Pairs :
          ( /\ HasProgress(pr) /\ ClaimCall(pr)
            /\ Progress(pr).is_completed /\ ~Progress(pr).reward_claimed
            /\ Rewards(pr[1]).claimed_count = Rewards(pr[1]).max_winners )
          => last'.result = "InsufficientRewardPool" ]_vars

\* C4 (amended): claimed_count <= max_winners always, the number of players
\* who claimed never exceeds max_winners, and a claim by a completed player
\* who has not claimed, made when claimed_count = max_winners, fails and
\* changes nothing: with InsufficientRewardPool when max_winners > 0, with
\* NoRewardsConfigured when max_winners = 0.
C4_WinnersBounded ==
    /\ [](\A h \in HuntIds : IsSome(hunts[h]) =>
             /\ Rewards(h).claimed_count <= Rewards(h).max_winners
             /\ Cardinality(ClaimedPlayers(h)) <= Rewards(h).max_winners)
    /\ [][ \A pr \in Pairs :
             ( /\ HasProgress(pr) /\ ClaimCall(pr)
               /\ Progress(pr).is_completed /\ ~Progress(pr).reward_claimed
               /\ Rewards(pr[1]).claimed_count = Rewards(pr[1]).max_winners )
             => /\ last'.result = IF Rewards(pr[1]).max_winners > 0
                                  THEN "InsufficientRewardPool"
                                  ELSE "NoRewardsConfigured"
                /\ CoreAndRmUnchanged ]_vars

\* C4 witness: with every winner slot taken, a further completed player's
\* claim was rejected with InsufficientRewardPool.
C4_Witness ==
    /\ last.op = "complete_hunt"
    /\ last.result = "InsufficientRewardPool"
    /\ Rewards(last.hunt).max_winners > 0
    /\ Cardinality(ClaimedPlayers(last.hunt)) = Rewards(last.hunt).max_winners
    /\ Unwrap(progress[<< last.hunt, last.player >>]).is_completed

\* Sum of the fungible amounts in hunt h's distribution records
RECURSIVE RecordedAmount(_, _)
RecordedAmount(h, ps) ==
    IF ps = {} THEN 0
    ELSE LET p == CHOOSE q \in ps : TRUE
             r == dist_record[<< h, p >>]
         IN  (IF IsSome(r) THEN Unwrap(r).xlm_amount ELSE 0)
             + RecordedAmount(h, ps \ {p})

\* C5: on a hunt with pool total P and max_winners W > 0 claimed through the
\* RewardManager, every successful claim pays the player exactly P div W and
\* lowers the hunt's pool balance by P div W; a completed player's claim made
\* when W claims have succeeded fails with InsufficientRewardPool; and when
\* the pool was funded with exactly P, W divides P and all W winners were
\* paid, the pool balance is 0.
C5_EqualShares ==
    /\ [][ \A pr \in Pairs :
             ( /\ HasProgress(pr) /\ ClaimCall(pr)
               /\ Rewards(pr[1]).max_winners > 0 )
             => LET rc == Rewards(pr[1])
                    share == rc.xlm_pool \div rc.max_winners
                IN  /\ (last'.result = "Ok" /\ IsSome(reward_manager)) =>
                          /\ token_bal'[pr[2]] = token_bal[pr[2]] + share
                          /\ pool'[pr[1]] = pool[pr[1]] - share
                    /\ ( /\ Progress(pr).is_completed
                         /\ ~Progress(pr).reward_claimed
                         /\ rc.claimed_count >= rc.max_winners ) =>
                          last'.result = "InsufficientRewardPool" ]_vars
    /\ [](\A h \in HuntIds : IsSome(hunts[h]) =>
            LET rc == Rewards(h)
            IN  ( /\ rc.max_winners > 0
                  /\ rc.xlm_pool > 0
                  /\ rc.xlm_pool % rc.max_winners = 0
                  /\ rc.claimed_count = rc.max_winners
                  /\ \A p \in ClaimedPlayers(h) : distributed[<< h, p >>]
                  /\ pool[h] + RecordedAmount(h, Players) = rc.xlm_pool )
                => pool[h] = 0)

\* C5 witness: pool total 2, two winners, funded with 2: both players hold
\* their share of 1 and the pool is empty after the second claim.
C5_Witness ==
    /\ last.op = "complete_hunt"
    /\ last.result = "Ok"
    /\ Rewards(last.hunt).xlm_pool = 2
    /\ Rewards(last.hunt).max_winners = 2
    /\ Rewards(last.hunt).claimed_count = 2
    /\ \A p \in Players : token_bal[p] = 1
    /\ pool[last.hunt] = 0

\* C8: a Cancelled hunt stays Cancelled, and every activate_hunt,
\* deactivate_hunt, cancel_hunt, add_clue, register_player and submit_answer
\* on it fails and changes nothing.
C8_CancelledTerminal ==
    [][ \A h \in HuntIds :
          (IsSome(hunts[h]) /\ TheHunt(h).status = "Cancelled") =>
             /\ IsSome(hunts'[h])
             /\ Unwrap(hunts'[h]).status = "Cancelled"
             /\ ( /\ last'.hunt = h
                  /\ last'.op \in { "activate_hunt", "deactivate_hunt",
                                    "cancel_hunt", "add_clue",
                                    "register_player", "submit_answer" } )
                => (last'.result # "Ok" /\ CoreAndRmUnchanged)
      ]_vars

\* C8 witness: the creator's own activate_hunt on a cancelled hunt with a clue
\* and a registered player was refused.
C8_Witness ==
    /\ last.op = "activate_hunt"
    /\ last.player = Creator
    /\ last.result = "InvalidHuntStatus"
    /\ IsSome(hunts[last.hunt])
    /\ TheHunt(last.hunt).status = "Cancelled"
    /\ TheHunt(last.hunt).total_clues >= 1
    /\ \E p \in Players : IsSome(progress[<< last.hunt, p >>])

\* C9: activate_hunt succeeds only on a Draft hunt with at least one clue
\* when the caller is the creator, and then sets status Active and the
\* activation time; a caller other than the creator gets Unauthorized, the
\* creator on a hunt not in Draft InvalidHuntStatus, the creator on a Draft
\* hunt without clues NoCluesAdded, each leaving every hunt unchanged.  Every
\* Active hunt has total_clues >= 1.
C9_ActivateGuards ==
    /\ [][ \A h \in HuntIds :
             ( /\ last'.op = "activate_hunt" /\ last'.hunt = h
               /\ IsSome(hunts[h]) )
             => LET hunt == TheHunt(h)
                    is_creator == last'.player = hunt.creator
                IN  /\ last'.result = "Ok" <=>
                          ( /\ is_creator /\ hunt.status = "Draft"
                            /\ hunt.total_clues >= 1 )
                    /\ ~is_creator => last'.result = "Unauthorized"
                    /\ (is_creator /\ hunt.status # "Draft") =>
                          last'.result = "InvalidHuntStatus"
                    /\ ( /\ is_creator /\ hunt.status = "Draft"
                         /\ hunt.total_clues = 0 ) =>
                          last'.result = "NoCluesAdded"
                    /\ last'.result # "Ok" => UNCHANGED hunts
                    /\ last'.result = "Ok" =>
                          hunts' = [hunts EXCEPT ![h] =
                              Some([hunt EXCEPT !.status = "Active",
                                                !.activated_at = now])]
         ]_vars
    /\ [](\A h \in HuntIds :
            (IsSome(hunts[h]) /\ TheHunt(h).status = "Active") =>
                TheHunt(h).total_clues >= 1)

\* C9 witness: the creator activated a Draft hunt that has a clue.
C9_Witness ==
    /\ last.op = "activate_hunt"
    /\ last.result = "Ok"
    /\ TheHunt(last.hunt).status = "Active"
    /\ TheHunt(last.hunt).total_clues >= 1
    /\ TheHunt(last.hunt).activated_at = now

\* C10: a hunt's status changes only in an invocation authorized by the
\* hunt's creator.
C10_StatusChangeNeedsCreatorAuth ==
    [][ \A h \in HuntIds :
          ( /\ IsSome(hunts[h]) /\ IsSome(hunts'[h])
            /\ Unwrap(hunts'[h]).status # TheHunt(h).status )
          => last'.invoker = TheHunt(h).creator ]_vars

\* C11: every fungible debit of a hunt's pool and every new distribution
\* record for (hunt, player) happens in a successful complete_hunt of that
\* player, whose progress showed full completion, no claim yet, and a
\* remaining winner slot.
C11_DistributionOnlyByClaim ==
    [][ \A pr \in Pairs :
          ( \/ pool'[pr[1]] < pool[pr[1]] /\ last'.player = pr[2]
            \/ ~IsSome(dist_record[pr]) /\ IsSome(dist_record'[pr]) )
          => /\ ClaimCall(pr)
             /\ last'.result = "Ok"
             /\ HasProgress(pr)
             /\ Progress(pr).is_completed
             /\ ~Progress(pr).reward_claimed
             /\ Rewards(pr[1]).claimed_count < Rewards(pr[1]).max_winners
      ]_vars

C13_ClaimGuardOrder ==
    [][ \A pr \in Pairs : (IsSome(hunts[pr[1]]) /\ ClaimCall(pr)) =>
          LET rc == Rewards(pr[1])
              guard ==
                  IF ~IsSome(progress[pr]) THEN "PlayerNotRegistered"
                  ELSE IF ~Progress(pr).is_completed THEN "HuntNotCompleted"
                  ELSE IF Progress(pr).reward_claimed
                       THEN "RewardAlreadyClaimed"
                  ELSE IF rc.max_winners = 0 THEN "NoRewardsConfigured"
                  ELSE IF rc.claimed_count >= rc.max_winners
                       THEN "InsufficientRewardPool"
                  ELSE "pass"
          IN  /\ guard # "pass" =>
                    (last'.result = guard /\ CoreAndRmUnchanged)
              /\ guard = "pass" =>
                    last'.result \in { "Ok", "RewardDistributionFailed",
                                       "Panic:transfer", "Panic:mint" }
              /\ last'.result = "Ok" =>
                    /\ guard = "pass"
                    /\ Unwrap(hunts'[pr[1]]).reward_config =
                           [rc EXCEPT !.claimed_count = @ + 1]
                    /\ progress' = [progress EXCEPT ![pr] =
                           Some([Progress(pr) EXCEPT !.reward_claimed = TRUE])]
      ]_vars

\* C13 witness: a registered player who has not completed a hunt without
\* winner slots claimed: two guards fail and the earlier one is reported.
C13_Witness ==
    /\ last.op = "complete_hunt"
    /\ last.invoker = last.player
    /\ last.result = "HuntNotCompleted"
    /\ IsSome(progress[<< last.hunt, last.player >>])
    /\ ~Unwrap(progress[<< last.hunt, last.player >>]).is_completed
    /\ Rewards(last.hunt).max_winners = 0

\* C14: when complete_hunt passes its guards and the nested distribute_rewards
\* fails (RewardManager not initialized, pool insufficient, token transfer or
\* NFT mint failing), complete_hunt returns RewardDistributionFailed and
\* leaves reward_claimed, claimed_count and everything else unchanged.
C14_NestedFailureIsGeneric ==
    [][ \A pr \in Pairs :
          ( /\ HasProgress(pr) /\ ClaimCall(pr)
            /\ Progress(pr).is_completed /\ ~Progress(pr).reward_claimed
            /\ Rewards(pr[1]).claimed_count < Rewards(pr[1]).max_winners
            /\ last'.result # "Ok" )
          => (last'.result = "RewardDistributionFailed" /\ CoreAndRmUnchanged)
      ]_vars

\* C15: distribute_rewards checks in order: a configuration without a reward
\* type fails with InvalidConfig even for a distributed pair; a distributed
\* pair fails with AlreadyDistributed even when the pool is insufficient; the
\* pool is compared with the amount (InsufficientPool) only after both, and
\* before the NFT target is used, so an insufficient pool is reported even
\* when the NFT contract cannot be called.
C15_DistributeCheckOrder ==
    [][ \A pr \in Pairs : DistCall(pr) =>
          LET cfg == last'.cfg
              xlm == IsSome(cfg.xlm_amount) /\ Unwrap(cfg.xlm_amount) > 0
              nft == IsSome(cfg.nft_contract)
              short == xlm /\ pool[pr[1]] < Unwrap(cfg.xlm_amount)
          IN  /\ (~xlm /\ ~nft) => last'.result = "InvalidConfig"
              /\ ((xlm \/ nft) /\ distributed[pr]) =>
                    last'.result = "AlreadyDistributed"
              /\ last'.result = "InsufficientPool" =>
                    ((xlm \/ nft) /\ ~distributed[pr] /\ short)
              /\ (~distributed[pr] /\ short /\ IsSome(xlm_token)) =>
                    last'.result = "InsufficientPool"
              /\ last'.result = "Panic:mint" => (nft /\ ~short)
      ]_vars

\* C15 witness: a call for a distributed pair asking for more than the pool
\* holds was answered AlreadyDistributed.
C15_Witness ==
    /\ last.op = "distribute_rewards"
    /\ last.result = "AlreadyDistributed"
    /\ distributed[<< last.hunt, last.player >>]
    /\ IsSome(last.cfg.xlm_amount)
    /\ Unwrap(last.cfg.xlm_amount) > pool[last.hunt]

\* C16: a claim on a hunt with nft_enabled and no nft_contract, made while
\* the RewardManager has a default NFT contract, mints an NFT for the player
\* through that default contract; with neither an explicit nor a default
\* contract the distribution fails.
C16_DefaultNftContractUsed ==
    [][ \A pr \in Pairs :
          ( /\ HasProgress(pr) /\ ClaimCall(pr)
            /\ IsSome(reward_manager)
            /\ Progress(pr).is_completed /\ ~Progress(pr).reward_claimed
            /\ Rewards(pr[1]).claimed_count < Rewards(pr[1]).max_winners
            /\ Rewards(pr[1]).nft_enabled
            /\ ~IsSome(Rewards(pr[1]).nft_contract) )
          => IF nft_contract = Some(NftRewardAddr)
             THEN last'.result = "Ok" =>
                     /\ nft_counter' = nft_counter + 1
                     /\ IsSome(Unwrap(dist_record'[pr]).nft_id)
             ELSE IF nft_contract = None
             THEN last'.result # "Ok"
             ELSE TRUE
      ]_vars

\* C17: a player's authorized register_player or submit_answer on an existing
\* hunt succeeds only while the hunt is Active and (end_time = 0 or the
\* current time < end_time); otherwise it fails and no progress record is
\* created or changed: register_player with InvalidHuntStatus on a hunt that
\* is not Active and HuntNotActive on an expired one, submit_answer with
\* HuntNotActive.
C17_OnlyLiveHunts ==
    [][ \A pr \in Pairs :
          ( /\ IsSome(hunts[pr[1]])
            /\ last'.op \in { "register_player", "submit_answer" }
            /\ last'.hunt = pr[1] /\ last'.player = pr[2]
            /\ last'.invoker = pr[2] )
          => LET hunt == TheHunt(pr[1])
                 active == hunt.status = "Active"
                 live == active /\ (hunt.end_time = 0 \/ now < hunt.end_time)
             IN  /\ last'.result = "Ok" => live
                 /\ ~live =>
                       /\ UNCHANGED progress
                       /\ last'.result =
                             IF last'.op = "register_player" /\ ~active
                             THEN "InvalidHuntStatus" ELSE "HuntNotActive"
      ]_vars

\* C17 witness: a registered player's answer to an Active hunt whose end
\* time has been reached was refused.
C17_Witness ==
    /\ last.op = "submit_answer"
    /\ last.result = "HuntNotActive"
    /\ TheHunt(last.hunt).status = "Active"
    /\ TheHunt(last.hunt).end_time > 0
    /\ now >= TheHunt(last.hunt).end_time
    /\ IsSome(progress[<< last.hunt, last.player >>])

\* The step is a register_player / submit_answer call for the pair pr.
PlayerCall(op, pr) ==
    /\ last'.op = op
    /\ last'.hunt = pr[1]
    /\ last'.player = pr[2]

Live(h) ==
    /\ TheHunt(h).status = "Active"
    /\ (TheHunt(h).end_time = 0 \/ now < TheHunt(h).end_time)

NoDuplicates(seq) ==
    \A i, j \in 1..Len(seq) : seq[i] = seq[j] => i = j

RECURSIVE SumPoints(_, _)
SumPoints(h, ids) ==
    IF ids = << >> THEN 0
    ELSE clues[h][Head(ids)].points + SumPoints(h, Tail(ids))

C20_AcceptedAnswerUpdatesProgress ==
    [][ \A pr \in Pairs :
          (PlayerCall("submit_answer", pr) /\ last'.result = "Ok") =>
             LET pg == Progress(pr)
                 after == Unwrap(progress'[pr])
                 cs == clues[pr[1]]
                 clue == cs[last'.arg[1]]
                 all_required ==
                     \A i \in 1..Len(cs) : cs[i].is_required =>
                        \E j \in 1..Len(after.completed_clues) :
                            after.completed_clues[j] = cs[i].clue_id
             IN  /\ after.completed_clues =
                        Append(pg.completed_clues, last'.arg[1])
                 /\ after.total_score = pg.total_score + clue.points
                 /\ IF all_required /\ ~pg.is_completed
                    THEN after.is_completed /\ after.completed_at = now
                    ELSE /\ after.is_completed = pg.is_completed
                         /\ after.completed_at = pg.completed_at
                 /\ after.reward_claimed = pg.reward_claimed
                 /\ after.registered_at = pg.registered_at
      ]_vars

\* C20 witness: the second of two clues was accepted at a later time than
\* the player's registration and completed the hunt for the player.
C20_Witness ==
    /\ last.op = "submit_answer"
    /\ last.result = "Ok"
    /\ LET pg == Unwrap(progress[<< last.hunt, last.player >>])
       IN  /\ Len(pg.completed_clues) = 2
           /\ pg.completed_clues[2] = last.arg[1]
           /\ pg.is_completed
           /\ pg.completed_at = now
           /\ pg.registered_at < now
           /\ clues[last.hunt][last.arg[1]].is_required

\* C21: in every state, every player's total_score is the sum of the points
\* of the clues in the player's completed list, and that list names no clue
\* twice and only clues that exist in the hunt.
C21_ScoreIsSumOfCompleted ==
    \A pr \in Pairs : IsSome(progress[pr]) =>
        LET done == Unwrap(progress[pr]).completed_clues
        IN  /\ \A i \in 1..Len(done) :
                  /\ done[i] \in 1..Len(clues[pr[1]])
                  /\ clues[pr[1]][done[i]].clue_id = done[i]
            /\ \A i, j \in 1..Len(done) : i # j => done[i] # done[j]
            /\ Unwrap(progress[pr]).total_score = SumPoints(pr[1], done)

\* C21 witness: a player completed a 2-point clue and then a 1-point clue
\* and scores 3.
C21_Witness ==
    \E pr \in Pairs :
        /\ IsSome(progress[pr])
        /\ Len(Unwrap(progress[pr]).completed_clues) = 2
        /\ clues[pr[1]][Unwrap(progress[pr]).completed_clues[1]].points = 2
        /\ clues[pr[1]][Unwrap(progress[pr]).completed_clues[2]].points = 1
        /\ Unwrap(progress[pr]).total_score = 3

\* ------------------------------------------------------ claims, leaderboard
BoardCall == last.op = "get_hunt_leaderboard" /\ last.result = "Ok"
BoardIn == last.arg[1]
BoardLimit == last.arg[2]
BoardOut == last.arg[3]

\* Completion time as a sort key: 0 (not completed) counts as later than
\* every completion time.
TimeKey(t) == IF t = 0 THEN MaxTime + 2 ELSE t

\* a ranks at least as high as b: higher score, or equal score and a
\* completion time not later
RanksNotBelow(a, b) ==
    \/ a.score > b.score
    \/ a.score = b.score /\ TimeKey(a.completed_at) <= TimeKey(b.completed_at)

Min3(a, b, c) ==
    IF a <= b /\ a <= c THEN a ELSE IF b <= c THEN b ELSE c

\* C22: the leaderboard is ordered by descending score and, among equal
\* scores, ascending completion time with 0 after every other time; every
\* player left out ranks no higher than every player returned; and two
\* top-scorers with completion times 1 < 2 and a lower-scoring player who has
\* not completed come out as (2, time 1), (2, time 2), (1), whatever their
\* order of registration.
C22_LeaderboardOrder ==
    BoardCall =>
        /\ \A i, j \in 1..Len(BoardOut) :
              i < j => RanksNotBelow(BoardOut[i], BoardOut[j])
        /\ \A i \in 1..Len(BoardOut), k \in 1..Len(BoardIn) :
              (\A j \in 1..Len(BoardOut) :
                   BoardOut[j].player # BoardIn[k].player)
              => RanksNotBelow(BoardOut[i], BoardIn[k])
        /\ ( /\ Len(BoardIn) = 3 /\ BoardLimit >= 3
             /\ { << BoardIn[i].score, BoardIn[i].completed_at >> :
                      i \in 1..3 } = { << 2, 1 >>, << 2, 2 >>, << 1, 0 >> } )
           => [ i \in 1..3 |->
                  << BoardOut[i].score, BoardOut[i].completed_at >> ]
                  = << << 2, 1 >>, << 2, 2 >>, << 1, 0 >> >>

\* C22 witness: the three players registered in the reverse of their ranking.
C22_Witness ==
    /\ BoardCall
    /\ BoardLimit = 3
    /\ [ i \in 1..Len(BoardIn) |->
           << BoardIn[i].score, BoardIn[i].completed_at >> ]
           = << << 1, 0 >>, << 2, 2 >>, << 2, 1 >> >>
    /\ [ i \in 1..Len(BoardOut) |-> BoardOut[i].player ] = << 3, 2, 1 >>

\* C23: for a limit K and N registered players the leaderboard has exactly
\* min(K, 20, N) entries, names no player twice, names only registered
\* players with their score and completion time, and its i-th entry carries
\* rank i.
C23_LeaderboardSize ==
    BoardCall =>
        /\ Len(BoardOut) = Min3(BoardLimit, 20, Len(BoardIn))
        /\ \A i, j \in 1..Len(BoardOut) :
              BoardOut[i].player = BoardOut[j].player => i = j
        /\ \A i \in 1..Len(BoardOut) :
              /\ BoardOut[i].rank = i
              /\ \E k \in 1..Len(BoardIn) :
                    BoardIn[k] = [ player |-> BoardOut[i].player,
                                   score |-> BoardOut[i].score,
                                   completed_at |-> BoardOut[i].completed_at,
                                   is_completed |-> BoardOut[i].is_completed ]

\* C23 witness: 21 registered players and a limit of 21 give 20 entries.
C23_Witness ==
    /\ BoardCall
    /\ Len(BoardIn) = 21
    /\ BoardLimit = 21
    /\ Len(BoardOut) = 20
    /\ BoardOut[20].rank = 20

\* Stable sort by insertion: e goes before the first entry it strictly
\* outranks, after every entry it ties with.
RECURSIVE InsertStable(_, _)
InsertStable(e, sorted) ==
    IF sorted = << >> THEN << e >>
    ELSE IF RanksNotBelow(Head(sorted), e)
         THEN << Head(sorted) >> \o InsertStable(e, Tail(sorted))
    ELSE << e >> \o sorted

RECURSIVE StableSort(_)
StableSort(entries) ==
    IF entries = << >> THEN << >>
    ELSE InsertStable(entries[Len(entries)],
                      StableSort(SubSeq(entries, 1, Len(entries) - 1)))

\* C24: the leaderboard equals the stable sort of all entries by (score
\* descending, completion time ascending with 0 last) cut to the first
\* min(K, 20) and numbered from 1; entries tying on both keys keep the order
\* of the stored player list.
C24_EqualsSortAndSlice ==
    BoardCall =>
        LET sorted == StableSort(BoardIn)
            n == Min3(BoardLimit, 20, Len(sorted))
        IN  BoardOut =
              [ i \in 1..n |->
                  [ rank |-> i, player |-> sorted[i].player,
                    score |-> sorted[i].score,
                    completed_at |-> sorted[i].completed_at,
                    is_completed |-> sorted[i].is_completed ] ]

\* C24 witness: the players registered 1st and 3rd tie on both keys below the
\* 2nd; the 1st is listed before the 3rd.
C24_Witness ==
    /\ BoardCall
    /\ Len(BoardIn) = 3
    /\ BoardIn[1].score = BoardIn[3].score
    /\ BoardIn[1].completed_at = BoardIn[3].completed_at
    /\ BoardIn[2].score > BoardIn[1].score
    /\ [ i \in 1..Len(BoardOut) |-> BoardOut[i].player ] = << 2, 1, 3 >>


\* ------------------------------------------------------------- claims, clues
\* A call of add_clue on hunt h has just returned res.
AddClueCall(h, res) ==
    /\ last'.op = "add_clue"
    /\ last'.hunt = h
    /\ last'.result = res

ClueIds(h) == [ i \in 1..Len(clues[h]) |-> clues[h][i].clue_id ]

C25_CountsAgree ==
    \A h \in HuntIds :
        /\ ClueIds(h) = [ i \in 1..clue_counter[h] |-> i ]
        /\ IF IsSome(hunts[h])
           THEN TheHunt(h).total_clues = clue_counter[h]
           ELSE clue_counter[h] = 0

C25_CountsSuccessfulCalls ==
    \A h \in HuntIds :
        /\ IsSome(hunts[h]) =>
              /\ IsSome(hunts'[h])
              /\ TheHunt(h)'.total_clues =
                    TheHunt(h).total_clues
                    + (IF AddClueCall(h, "Ok") THEN 1 ELSE 0)
        /\ ~IsSome(hunts[h]) /\ IsSome(hunts'[h])
              => TheHunt(h)'.total_clues = 0
        /\ AddClueCall(h, "Ok") =>
              clues'[h] = Append(clues[h], clues'[h][Len(clues'[h])])

\* C25: in every reachable state a hunt's total_clues equals its clue
\* counter and its clue ids are exactly 1..total_clues in order of addition;
\* total_clues starts at 0, grows by exactly one on each successful add_clue
\* on the hunt, whose clue is appended after the others, and is left alone by
\* every other step.
C25_TotalCluesCountsAdds ==
    /\ []C25_CountsAgree
    /\ [][C25_CountsSuccessfulCalls]_vars

\* C25 witness: the second clue of hunt 1 has just been added.
C25_Witness ==
    /\ last.op = "add_clue"
    /\ last.result = "Ok"
    /\ last.hunt = 1
    /\ TheHunt(1).total_clues = 2
    /\ ClueIds(1) = << 1, 2 >>

\* C26: add_clue succeeds only on a Draft hunt with fewer than 100 clues; on
\* a hunt that is not in Draft it fails with InvalidHuntStatus and, called by
\* the creator on a Draft hunt with 100 clues, with TooManyClues; a failed
\* call leaves the clue counter, the clues and the hunts as they were; and no
\* step of any operation modifies or removes an existing clue.
C26_AddClueGuards ==
    [][ /\ \A h \in HuntIds :
              /\ AddClueCall(h, "Ok") =>
                    /\ IsSome(hunts[h])
                    /\ TheHunt(h).status = "Draft"
                    /\ clue_counter[h] < 100
                    /\ Len(clues[h]) < 100
              /\ last'.op = "add_clue" /\ last'.hunt = h /\ IsSome(hunts[h])
                    =>
                    /\ TheHunt(h).status # "Draft"
                          => last'.result = "InvalidHuntStatus"
                    /\ ( /\ TheHunt(h).status = "Draft"
                         /\ last'.invoker = TheHunt(h).creator
                         /\ TheHunt(h).total_clues >= 100 )
                          => last'.result = "TooManyClues"
              /\ last'.op = "add_clue" /\ last'.result # "Ok"
                    => UNCHANGED << clue_counter, clues, hunts >>
              /\ Len(clues'[h]) >= Len(clues[h])
              /\ \A i \in 1..Len(clues[h]) : clues'[h][i] = clues[h][i]
      ]_vars

\* C26 witness: the creator's call on the Draft hunt holding 100 clues has
\* been refused.
C26_Witness ==
    /\ last.op = "add_clue"
    /\ last.result = "TooManyClues"
    /\ last.hunt = 1
    /\ TheHunt(1).status = "Draft"
    /\ TheHunt(1).total_clues = 100
    /\ Len(clues[1]) = 100


\* ------------------------------------------------- claims, answer matching
HashCall == last.op = "normalize_and_hash_answer"
StoredAnswer == last.arg[1]
SubmittedAnswer == last.arg[2]
StoredHash == last.arg[3]
SubmittedHash == last.arg[4]
RehashedSubmitted == last.arg[5]

IsBlank(b) == b \in {32, 9, 10, 13}

RECURSIVE TrimLeft(_)
TrimLeft(bytes) ==
    IF bytes # << >> /\ IsBlank(Head(bytes)) THEN TrimLeft(Tail(bytes))
    ELSE bytes

RECURSIVE TrimRight(_)
TrimRight(bytes) ==
    IF bytes # << >> /\ IsBlank(bytes[Len(bytes)])
    THEN TrimRight(SubSeq(bytes, 1, Len(bytes) - 1))
    ELSE bytes

\* trim, then lowercase 'A'..'Z'
Normalized(bytes) ==
    LET t == TrimRight(TrimLeft(bytes))
    IN  [ i \in 1..Len(t) |->
            IF t[i] \in 65..90 THEN t[i] + 32 ELSE t[i] ]

\* C27: an answer of at most 256 bytes is rejected exactly when it is empty
\* or all whitespace; hashing the normalized form of an accepted answer gives
\* the hash of the answer (normalization is idempotent); and two accepted
\* answers, one stored with a clue and one submitted, have the same hash
\* exactly when their trimmed, lowercased forms are equal.
C27_NormalizedHash ==
    HashCall =>
        /\ \A pair \in { << StoredAnswer, StoredHash >>,
                         << SubmittedAnswer, SubmittedHash >> } :
              Len(pair[1]) <= 256 =>
                 /\ IsSome(pair[2]) <=> Normalized(pair[1]) # << >>
                 /\ IsSome(pair[2]) =>
                       Unwrap(pair[2]) = sha256(Normalized(pair[1]))
        /\ IsSome(SubmittedHash) =>
              /\ RehashedSubmitted = SubmittedHash
              /\ Normalized(Normalized(SubmittedAnswer))
                    = Normalized(SubmittedAnswer)
        /\ IsSome(StoredHash) /\ IsSome(SubmittedHash) =>
              ( StoredHash = SubmittedHash
                <=> Normalized(StoredAnswer) = Normalized(SubmittedAnswer) )

\* C27 witness: the stored answer "a" and the submitted answer " A " (padded,
\* upper case) have the same hash.
C27_Witness ==
    /\ HashCall
    /\ StoredAnswer = << 97 >>
    /\ SubmittedAnswer = << 32, 65, 9 >>
    /\ IsSome(StoredHash)
    /\ StoredHash = SubmittedHash


\* ----------------------------------------------------- claims, NftReward
MintCall == last'.op = "mint_reward_nft"
TransferCall == last'.op = "transfer_nft"
UpdateCall == last'.op = "update_nft_metadata"

\* NftReward::total_supply
total_supply == nft_counter

C28_IdsAreOneToSupply ==
    /\ DOMAIN nfts = 1..total_supply
    /\ \A i \in DOMAIN nfts : nfts[i].nft_id = i

C28_MintTakesNextId ==
    /\ total_supply' = total_supply + (IF MintCall THEN 1 ELSE 0)
    /\ MintCall =>
          /\ last'.arg[2] = total_supply + 1
          /\ last'.arg[2] \notin DOMAIN nfts
          /\ DOMAIN nfts' = DOMAIN nfts \cup { last'.arg[2] }
    /\ \A i \in DOMAIN nfts : i \in DOMAIN nfts' /\ nfts'[i].nft_id = i

\* C28: the ids of the NFT records are exactly 1..total_supply, each record
\* carrying the id it is stored under; total_supply starts at 0, a mint
\* returns total_supply + 1, an id no record has, and raises total_supply
\* by one; no other step changes total_supply or removes or renumbers a
\* record.
C28_SequentialIds ==
    /\ []C28_IdsAreOneToSupply
    /\ [][C28_MintTakesNextId]_vars

\* C28 witness: the second mint has returned id 2.
C28_Witness ==
    /\ last.op = "mint_reward_nft"
    /\ last.arg[2] = 2
    /\ total_supply = 2
    /\ nfts[1].nft_id = 1
    /\ nfts[2].nft_id = 2

Occurrences(seq, x) == Cardinality({ i \in 1..Len(seq) : seq[i] = x })

C29_IndexMatchesOwner ==
    /\ \A id \in DOMAIN nfts, a \in Players :
          Occurrences(owner_nfts[a], id)
             = (IF nfts[id].owner = a THEN 1 ELSE 0)
    /\ \A a \in Players :
          \A i \in 1..Len(owner_nfts[a]) : owner_nfts[a][i] \in DOMAIN nfts

C29_TransferGuards ==
    TransferCall =>
        LET id == last'.arg[1]
            from_address == last'.player
            to_address == last'.arg[2]
        IN  /\ last'.result = "Ok" =>
                  /\ id \in DOMAIN nfts
                  /\ nfts[id].owner = from_address
                  /\ to_address # from_address
                  /\ nfts'[id].owner = to_address
            /\ last'.invoker = from_address =>
                  last'.result =
                      IF id \notin DOMAIN nfts THEN "NftNotFound"
                      ELSE IF nfts[id].owner # from_address THEN "NotOwner"
                      ELSE IF to_address = from_address
                           THEN "InvalidRecipient"
                      ELSE "Ok"
            /\ last'.result # "Ok" => UNCHANGED nft_vars

\* C29: transfer_nft succeeds only when from_address owns the NFT and
\* to_address is another address, and then makes to_address the owner; a
\* call authorised by from_address fails with NftNotFound, NotOwner or
\* InvalidRecipient otherwise; a failed call changes nothing; and in every
\* reachable state each NFT id is listed exactly once in the index of the
\* owner stored in its record and in no other index.
C29_TransferKeepsIndex ==
    /\ []C29_IndexMatchesOwner
    /\ [][C29_TransferGuards]_vars

\* C29 witness: NFT 1, minted to p1 and transferred to p2 and back, is listed
\* once under p1, after the NFT p1 got in between.
C29_Witness ==
    /\ last.op = "transfer_nft"
    /\ last.result = "Ok"
    /\ last.arg = << 1, "p1" >>
    /\ nfts[1].owner = "p1"
    /\ nfts[1].completion_player = "p1"
    /\ owner_nfts["p1"] = << 2, 1 >>
    /\ owner_nfts["p2"] = << >>

\* The fields of an NFT record that are fixed at mint
Provenance(nft) ==
    << nft.nft_id, nft.hunt_id, nft.completion_player, nft.minted_at,
       nft.metadata.title, nft.metadata.hunt_title, nft.metadata.rarity,
       nft.metadata.tier >>

\* C30: no step changes the id, hunt id, completion_player, mint time,
\* title, hunt_title, rarity or tier of an NFT; a transfer changes nothing of
\* a record but the owner, and only of the NFT transferred; an update
\* succeeds only for the current owner, changes the description and
\* image_uri of that NFT to the values given and nothing else, and leaves
\* the owner indexes alone.
C30_ProvenanceFixed ==
    [][ /\ \A id \in DOMAIN nfts :
              /\ id \in DOMAIN nfts'
              /\ Provenance(nfts'[id]) = Provenance(nfts[id])
              /\ TransferCall =>
                    /\ nfts'[id] = [nfts[id] EXCEPT !.owner = nfts'[id].owner]
                    /\ id # last'.arg[1] => nfts'[id] = nfts[id]
              /\ UpdateCall =>
                    /\ nfts'[id].owner = nfts[id].owner
                    /\ id # last'.arg[1] => nfts'[id] = nfts[id]
        /\ UpdateCall =>
              /\ UNCHANGED << owner_nfts, nft_counter >>
              /\ IF last'.result = "Ok"
                 THEN LET id == last'.arg[1]
                      IN  /\ id \in DOMAIN nfts
                          /\ nfts[id].owner = last'.player
                          /\ nfts'[id] =
                               [nfts[id] EXCEPT
                                  !.metadata.description = last'.arg[2],
                                  !.metadata.image_uri = last'.arg[3]]
                 ELSE UNCHANGED nfts
      ]_vars

\* C30 witness: NFT 1, minted to p1 and now owned by p2, has been given a new
\* description and image by p2 and still names p1 as completion_player.
C30_Witness ==
    /\ last.op = "update_nft_metadata"
    /\ last.result = "Ok"
    /\ last.player = "p2"
    /\ last.arg[1] = 1
    /\ nfts[1].owner = "p2"
    /\ nfts[1].completion_player = "p1"
    /\ nfts[1].metadata.description = 2
    /\ nfts[1].metadata.image_uri = 3
    /\ nfts[1].metadata.title = 1


\* ------------------------------------------------ claims, errors and status
\* Everything the three contracts keep in storage, and the token balances
DurableState ==
    << hunt_counter, hunts, clue_counter, clues, progress, hunt_players,
       reward_manager, xlm_token, nft_contract, pool, distributed,
       dist_record, token_bal, nft_counter, nfts, owner_nfts >>

\* C31: a call of any operation of the three contracts that does not return
\* Ok, whether it returns an error or aborts, leaves hunts, clues, counters,
\* progress records, pool balances, distribution markers and records, token
\* balances, NFT records, owner indexes and the NFT counter as they were.
C31_ErrorsWriteNothing ==
    [][ last'.result # "Ok" => UNCHANGED DurableState ]_vars

\* C31 witness: a claim has failed in the nested distribution and the player
\* is still unclaimed, the slot and the balances untouched.
C31_Witness ==
    /\ last.op = "complete_hunt"
    /\ last.result = "RewardDistributionFailed"
    /\ ~Progress(<< 1, "p1" >>).reward_claimed
    /\ Rewards(1).claimed_count = 0
    /\ ~distributed[<< 1, "p1" >>]
    /\ token_bal["p1"] = 0


StatusEdge(h) == << TheHunt(h).status, last'.op, TheHunt(h)'.status >>

C32_NeverCompleted ==
    \A h \in HuntIds : IsSome(hunts[h]) => TheHunt(h).status # "Completed"

C32_Edges ==
    \A h \in HuntIds :
        /\ ~IsSome(hunts[h]) /\ IsSome(hunts'[h])
              => TheHunt(h)'.status = "Draft"
        /\ IsSome(hunts[h]) =>
              /\ IsSome(hunts'[h])
              /\ \/ TheHunt(h)'.status = TheHunt(h).status
                 \/ /\ last'.hunt = h
                    /\ last'.result = "Ok"
                    /\ StatusEdge(h) \in
                          { << "Draft", "activate_hunt", "Active" >>,
                            << "Active", "deactivate_hunt", "Draft" >>,
                            << "Draft", "cancel_hunt", "Cancelled" >>,
                            << "Active", "cancel_hunt", "Cancelled" >> }

\* C32: a hunt is created in Draft and its status changes only by a
\* successful activate (Draft to Active), deactivate (Active to Draft) or
\* cancel (Draft or Active to Cancelled) of that hunt; no hunt is ever in
\* status Completed, whatever players complete or claim.
C32_StatusEdgesOnly ==
    /\ []C32_NeverCompleted
    /\ [][C32_Edges]_vars

\* C32 witness: the only player has completed the hunt and claimed, and the
\* hunt, deactivated since, is in Draft.
C32_Witness ==
    /\ last.op = "deactivate_hunt"
    /\ last.result = "Ok"
    /\ HasProgress(<< 1, "p1" >>)
    /\ Progress(<< 1, "p1" >>).is_completed
    /\ Progress(<< 1, "p1" >>).reward_claimed
    /\ TheHunt(1).status = "Draft"


\* The identity a call is attributed to: the hunt's creator for add_clue, the
\* player, funder, sender or updater named in the call for the others.
AttributedTo ==
    IF last.op = "add_clue" THEN TheHunt(last.hunt).creator ELSE last.player

\* C33: a call of add_clue (on an existing hunt), register_player,
\* submit_answer, complete_hunt, fund_reward_pool, transfer_nft or
\* update_nft_metadata that is not authorised by the identity it is
\* attributed to aborts on the authorisation; it never returns a not-found,
\* invalid-state or validation error instead.
C33_AuthorizationFirst ==
    ( /\ last.op \in { "add_clue", "register_player", "submit_answer",
                       "complete_hunt", "fund_reward_pool", "transfer_nft",
                       "update_nft_metadata" }
      /\ last.op = "add_clue" => IsSome(hunts[last.hunt])
      /\ last.invoker # AttributedTo )
    => last.result = "Panic:auth"


\* ------------------------------------------------- claims, player progress
\* The player of pr has every clue that hunt pr[1] requires now.
HasAllRequired(pr) ==
    \A i \in 1..Len(clues[pr[1]]) :
        clues[pr[1]][i].is_required =>
            has_completed_clue(Progress(pr), clues[pr[1]][i].clue_id)

\* C34: in every reachable state a player whose progress is marked completed
\* has every required clue of the hunt in the completed list, so that every
\* successful claim is by a player who has completed all clues required at
\* the time of the claim.
C34_CompletedHasAllRequired ==
    /\ \A pr \in Pairs :
          (HasProgress(pr) /\ Progress(pr).is_completed)
             => HasAllRequired(pr)
    /\ (last.op = "complete_hunt" /\ last.result = "Ok")
          => HasAllRequired(<< last.hunt, last.player >>)


C35_ClaimedIsCompleted ==
    \A pr \in Pairs :
        (HasProgress(pr) /\ Progress(pr).reward_claimed)
           => Progress(pr).is_completed

C35_FlagsStay ==
    \A pr \in Pairs :
        HasProgress(pr) =>
            /\ HasProgress(pr)'
            /\ Progress(pr).is_completed =>
                  /\ Progress(pr)'.is_completed
                  /\ Progress(pr)'.completed_at = Progress(pr).completed_at
                  /\ ( /\ last'.op = "submit_answer"
                       /\ last'.result = "Ok"
                       /\ << last'.hunt, last'.player >> = pr )
                     => Progress(pr)'.total_score
                           = Progress(pr).total_score
                             + clues[pr[1]][last'.arg[1]].points
            /\ Progress(pr).reward_claimed => Progress(pr)'.reward_claimed

\* C35: once a progress record is marked completed it stays completed and
\* its completion time never changes, also when a later correct answer adds
\* the points of another clue to the score; once reward_claimed is set it
\* stays set; and in every reachable state a record with reward_claimed set
\* is marked completed.
C35_FlagsMonotone ==
    /\ []C35_ClaimedIsCompleted
    /\ [][C35_FlagsStay]_vars

\* C35 witness: a player who completed the hunt earlier and has claimed has
\* now answered a further clue; the completion time is the earlier one.
C35_Witness ==
    /\ last.op = "submit_answer"
    /\ last.result = "Ok"
    /\ Progress(<< 1, "p1" >>).is_completed
    /\ Progress(<< 1, "p1" >>).reward_claimed
    /\ Progress(<< 1, "p1" >>).completed_at < now
    /\ Progress(<< 1, "p1" >>).total_score = 2


\* C36: in every reachable state the claimed_count of a hunt equals the
\* number of progress records of that hunt that have reward_claimed set.
C36_ClaimedCountIsClaimedRecords ==
    \A h \in HuntIds :
        IsSome(hunts[h]) =>
            Rewards(h).claimed_count
               = Cardinality({ p \in Players :
                     /\ IsSome(progress[<< h, p >>])
                     /\ Progress(<< h, p >>).reward_claimed })

\* C36 witness: both players have claimed on hunt 1, the second just now.
C36_Witness ==
    /\ last.op = "complete_hunt"
    /\ last.result = "Ok"
    /\ Rewards(1).claimed_count = 2
    /\ \A p \in Players :
          /\ IsSome(progress[<< 1, p >>])
          /\ Progress(<< 1, p >>).reward_claimed


\* A claim by the player of pr that nothing but the hunt's status or end
\* time could stand in the way of: the record is completed and unclaimed, a
\* winner slot is free, the reward manager is wired and initialised, the
\* pool covers the share and no distribution is recorded for the player.
ClaimIsDue(pr) ==
    /\ IsSome(hunts[pr[1]])
    /\ HasProgress(pr)
    /\ Progress(pr).is_completed
    /\ ~Progress(pr).reward_claimed
    /\ has_rewards_available(TheHunt(pr[1]))
    /\ IsSome(reward_manager)
    /\ IsSome(xlm_token)
    /\ reward_per_winner(Rewards(pr[1])) > 0
    /\ pool[pr[1]] >= reward_per_winner(Rewards(pr[1]))
    /\ ~distributed[pr]

C37_DueClaimSucceeds ==
    \A pr \in Pairs :
        ( /\ ClaimIsDue(pr)
          /\ last'.op = "complete_hunt"
          /\ last'.invoker = pr[2]
          /\ << last'.hunt, last'.player >> = pr
          /\ last'.result # "Panic:transfer" )
        => /\ last'.result = "Ok"
           /\ Progress(pr)'.reward_claimed
           /\ Rewards(pr[1])'.claimed_count
                 = Rewards(pr[1]).claimed_count + 1
           /\ pool'[pr[1]]
                 = pool[pr[1]] - reward_per_winner(Rewards(pr[1]))
           /\ token_bal'[pr[2]]
                 = token_bal[pr[2]] + reward_per_winner(Rewards(pr[1]))

\* C37: complete_hunt looks neither at the hunt's status nor at its end time:
\* a claim of a completed, unclaimed record with a free winner slot and a
\* funded pool succeeds whatever the status and the time are, takes the
\* share out of the pool and uses a winner slot.
C37_ClaimIgnoresStatusAndTime == [][C37_DueClaimSucceeds]_vars

\* C37 witness: a player who completed the hunt while it was Active has
\* claimed after the hunt was cancelled and its end time had passed.
C37_Witness ==
    /\ last.op = "complete_hunt"
    /\ last.result = "Ok"
    /\ TheHunt(1).status = "Cancelled"
    /\ TheHunt(1).end_time > 0
    /\ now >= TheHunt(1).end_time
    /\ Progress(<< 1, "p1" >>).completed_at < now
    /\ Rewards(1).claimed_count = 1
    /\ pool[1] = 0
    /\ token_bal["p1"] = MaxPool


\* The conditions C38 lists for the player of pr: the reward manager is
\* wired and initialised, the record is completed and unclaimed, a winner
\* slot is free and the pool covers a positive share, without an NFT.
ClaimIsOwed(pr) ==
    /\ IsSome(hunts[pr[1]])
    /\ HasProgress(pr)
    /\ Progress(pr).is_completed
    /\ ~Progress(pr).reward_claimed
    /\ has_rewards_available(TheHunt(pr[1]))
    /\ IsSome(reward_manager)
    /\ IsSome(xlm_token)
    /\ ~Rewards(pr[1]).nft_enabled
    /\ reward_per_winner(Rewards(pr[1])) > 0
    /\ pool[pr[1]] >= reward_per_winner(Rewards(pr[1]))

C38_OwedClaimSucceeds ==
    \A pr \in Pairs :
        ( /\ ClaimIsOwed(pr)
          /\ last'.op = "complete_hunt"
          /\ last'.invoker = pr[2]
          /\ << last'.hunt, last'.player >> = pr
          /\ last'.result # "Panic:transfer" )
        => last'.result = "Ok"

\* C38: a completed player who has not claimed, with a free winner slot and
\* a pool that covers the positive share, claims successfully, whatever
\* calls other parties made before (a direct distribute_rewards naming the
\* player included).
C38_ClaimCannotBeBlocked == [][C38_OwedClaimSucceeds]_vars


\* ------------------------------------------- claims, token conservation
RECURSIVE SumPools(_)
SumPools(hs) ==
    IF hs = {} THEN 0
    ELSE LET h == CHOOSE x \in hs : TRUE
         IN  pool[h] + SumPools(hs \ {h})

\* The amount a successful fund_reward_pool call has just added for hunt h.
JustFunded(h) ==
    IF /\ last'.op = "fund_reward_pool"
       /\ last'.result = "Ok"
       /\ last'.hunt = h
    THEN last'.amount
    ELSE 0

C39_PoolsAreContractBalance == SumPools(HuntIds) = token_bal[RM]

C39_PoolFollowsFundsAndRecords ==
    \A h \in HuntIds :
        pool'[h] - pool[h]
           = JustFunded(h)
             - (RecordedAmount(h, Players)' - RecordedAmount(h, Players))

\* C39: a hunt's pool starts at 0 and every step changes it by the amount
\* successfully funded for that hunt minus the fungible amount of the
\* distribution records written for that hunt in the step, so that the pool
\* is the sum of the funded amounts less the sum of the recorded amounts;
\* and in every reachable state the pools of all hunts add up to the
\* RewardManager's token balance.
C39_TokenConservation ==
    /\ \A h \in HuntIds : pool[h] = 0 /\ RecordedAmount(h, Players) = 0
    /\ []C39_PoolsAreContractBalance
    /\ [][C39_PoolFollowsFundsAndRecords]_vars

\* C39 witness: both hunts were funded and a distribution was paid from one
\* of them; the pools differ and add up to what the contract still holds.
C39_Witness ==
    /\ last.op = "distribute_rewards"
    /\ last.result = "Ok"
    /\ last.hunt = 1
    /\ RecordedAmount(1, Players) = 1
    /\ pool[1] = 0
    /\ pool[2] = 1
    /\ token_bal[RM] = 1


\* ------------------------------------- claims, hunts without required clue
NoRequiredClue(h) ==
    \A i \in 1..Len(clues[h]) : ~clues[h][i].is_required

C40_CompletedIffAnswered ==
    \A pr \in Pairs :
        (HasProgress(pr) /\ NoRequiredClue(pr[1]))
           => (Progress(pr).is_completed
                  <=> Progress(pr).completed_clues # << >>)

C40_Steps ==
    \A pr \in Pairs :
        (<< last'.hunt, last'.player >> = pr) =>
        /\ (last'.op = "register_player" /\ last'.result = "Ok")
              => /\ ~Progress(pr)'.is_completed
                 /\ Progress(pr)'.completed_clues = << >>
        /\ ( /\ last'.op = "submit_answer"
             /\ last'.result = "Ok"
             /\ NoRequiredClue(pr[1])
             /\ Progress(pr).completed_clues = << >> )
           => /\ ~Progress(pr).is_completed
              /\ Progress(pr)'.is_completed
              /\ Progress(pr)'.completed_at = now
              /\ Progress(pr)'.completed_clues = << last'.arg[1] >>
        /\ ( /\ last'.op = "complete_hunt"
             /\ last'.invoker = pr[2]
             /\ HasProgress(pr)
             /\ NoRequiredClue(pr[1])
             /\ Progress(pr).completed_clues = << >> )
           => /\ last'.result = "HuntNotCompleted"
              /\ ~Progress(pr)'.reward_claimed

\* C40: in a hunt without a required clue a player's record is created not
\* completed, is completed exactly when it holds a correctly answered clue
\* (the first correct answer, to whichever clue, completes it and stamps the
\* time), and a claim made before that answer returns HuntNotCompleted.
C40_NoRequiredClueNeedsAnAnswer ==
    /\ []C40_CompletedIffAnswered
    /\ [][C40_Steps]_vars

\* C40 witness: a hunt with two optional clues and no required one; the
\* player's first correct answer, to the second clue and later than the
\* registration, has now completed the record.
C40_Witness ==
    /\ last.op = "submit_answer"
    /\ last.result = "Ok"
    /\ Len(clues[1]) = 2
    /\ NoRequiredClue(1)
    /\ Progress(<< 1, "p1" >>).completed_clues = << 2 >>
    /\ Progress(<< 1, "p1" >>).is_completed
    /\ Progress(<< 1, "p1" >>).completed_at = now
    /\ Progress(<< 1, "p1" >>).registered_at < now

====
